---------------------------- MODULE Spec2Model ----------------------------
(***************************************************************************)
(* Schema mapper / cleaner: header matching (mapping.py) and per-field     *)
(* cleaning and validation (cleaner.py).                                   *)
(*                                                                         *)
(* A Python str is a sequence of one-character strings.                    *)
(***************************************************************************)
EXTENDS Integers, Sequences, FiniteSets, TLC

VARIABLES
    \* HeaderMapper.suggest_mappings
    input_headers, canonical_fields, promoted_aliases, suggestions, map_pc,
    \* HeaderMapper._normalize_header on its own
    norm_in, norm_out, norm_pc,
    \* one cleaning function and its validator applied to one cell
    clean_key, cell_in, cell_out, cell_again, cell_valid, clean_pc,
    \* DataCleaner.clean_dataframe and validate_dataframe on one dataset
    df, cleaned_df, validation_results, df_pc,
    \* the Streamlit session (app.py): the uploaded dataset, the confirmed
    \* mapping, the promoted fix rules of the store, and what
    \* handle_data_cleaning leaves in st.session_state
    df_uploaded, final_mapping, promoted_rules,
    ss_original_mapped_df, ss_cleaned_df, ss_validation_results, app_pc,
    \* FixSuggester.suggest_fixes on one dataset
    fix_raw, fix_df, fix_validation, suggested_fixes, fix_pc,
    \* the promotion store file (persistence.py) and the calls on it
    store_file, loaded, fixes_data, file_before, save_ok, store_pc,
    \* the rest of st.session_state, the uploaded file and the rendered report
    filename, session_keys, ss_suggested_fixes, ss_applied_fixes, ss_final_df, ss_sources,
    report, uploads, sess_pc,
    \* SchemaLoader.load_canonical_schema on one schema file
    schema_file, canonical_out, schema_pc

mapVars  == <<input_headers, canonical_fields, promoted_aliases, suggestions, map_pc>>
normVars == <<norm_in, norm_out, norm_pc>>
cleanVars == <<clean_key, cell_in, cell_out, cell_again, cell_valid, clean_pc>>
dfVars   == <<df, cleaned_df, validation_results, df_pc>>
appVars  == <<df_uploaded, final_mapping, promoted_rules,
              ss_original_mapped_df, ss_cleaned_df, ss_validation_results, app_pc>>
fixVars == <<fix_raw, fix_df, fix_validation, suggested_fixes, fix_pc>>
storeVars == <<store_file, loaded, fixes_data, file_before, save_ok, store_pc>>
sessVars == <<filename, session_keys, ss_suggested_fixes, ss_applied_fixes, ss_final_df,
              ss_sources, report, uploads, sess_pc>>
schemaVars == <<schema_file, canonical_out, schema_pc>>
vars     == <<mapVars, normVars, cleanVars, dfVars, appVars, fixVars, storeVars, sessVars, schemaVars>>

(***************************************************************************)
(* Characters and the str methods the code uses                            *)
(***************************************************************************)
LowerSeq == <<"a","b","c","d","e","f","g","h","i","j","k","l","m","n","o","p","q","r","s","t","u","v","w","x","y","z">>
UpperSeq == <<"A","B","C","D","E","F","G","H","I","J","K","L","M","N","O","P","Q","R","S","T","U","V","W","X","Y","Z">>
DigitSeq == <<"0","1","2","3","4","5","6","7","8","9">>

Range(s) == {s[i] : i \in 1..Len(s)}

LowerLetters == Range(LowerSeq)
UpperLetters == Range(UpperSeq)
Digits       == Range(DigitSeq)
Whitespace   == {" ", "\t", "\n"}

\* regex \w on str: letters, digits and the underscore
IsWordChar(c) == c \in LowerLetters \cup UpperLetters \cup Digits \cup {"_"}
\* regex \s
IsSpaceChar(c) == c \in Whitespace
\* regex \d
IsDigitChar(c) == c \in Digits

IndexIn(c, s) == CHOOSE i \in 1..Len(s) : s[i] = c

LowerChar(c) == IF c \in UpperLetters THEN LowerSeq[IndexIn(c, UpperSeq)] ELSE c
UpperChar(c) == IF c \in LowerLetters THEN UpperSeq[IndexIn(c, LowerSeq)] ELSE c

\* str.lower(), str.upper()
Lower(s) == [i \in 1..Len(s) |-> LowerChar(s[i])]
Upper(s) == [i \in 1..Len(s) |-> UpperChar(s[i])]

RECURSIVE LStrip(_)
LStrip(s) == IF s # <<>> /\ IsSpaceChar(Head(s)) THEN LStrip(Tail(s)) ELSE s

RECURSIVE RStrip(_)
RStrip(s) ==
    IF s # <<>> /\ IsSpaceChar(s[Len(s)]) THEN RStrip(SubSeq(s, 1, Len(s) - 1)) ELSE s

\* str.strip()
Strip(s) == RStrip(LStrip(s))

\* re.sub(r'\s+', ' ', s)
RECURSIVE CollapseSpaces(_)
CollapseSpaces(s) ==
    IF s = <<>> THEN <<>>
    ELSE IF IsSpaceChar(Head(s)) THEN <<" ">> \o CollapseSpaces(LStrip(Tail(s)))
         ELSE <<Head(s)>> \o CollapseSpaces(Tail(s))

\* str.startswith(p)
StartsWith(s, p) == Len(p) <= Len(s) /\ SubSeq(s, 1, Len(p)) = p

\* p in s (substring test)
Contains(s, p) ==
    \E i \in 1..(Len(s) - Len(p) + 1) : SubSeq(s, i, i + Len(p) - 1) = p

\* index of the first occurrence of character c in s, 0 when absent
FirstIndex(s, c) ==
    IF \E i \in 1..Len(s) : s[i] = c
    THEN CHOOSE i \in 1..Len(s) : s[i] = c /\ \A j \in 1..(i - 1) : s[j] # c
    ELSE 0

\* set(s.split()): the set of whitespace-separated tokens of s
Tokens(s) ==
    {SubSeq(s, i, j) : <<i, j>> \in
        {p \in (1..Len(s)) \X (1..Len(s)) :
            /\ p[1] <= p[2]
            /\ \A k \in p[1]..p[2] : ~IsSpaceChar(s[k])
            /\ (p[1] = 1 \/ IsSpaceChar(s[p[1] - 1]))
            /\ (p[2] = Len(s) \/ IsSpaceChar(s[p[2] + 1]))}}

Max(a, b) == IF a >= b THEN a ELSE b

(***************************************************************************)
(* HeaderMapper._normalize_header                                          *)
(***************************************************************************)
\* re.sub(r'[^\w\s]', ' ', s): every character that is neither \w nor \s
\* becomes one space
ReplaceSpecial(s) ==
    [i \in 1..Len(s) |-> IF IsWordChar(s[i]) \/ IsSpaceChar(s[i]) THEN s[i] ELSE " "]

_normalize_header(header) == Strip(CollapseSpaces(ReplaceSpecial(Lower(header))))


(***************************************************************************)
(* rapidfuzz.fuzz.ratio: 100 * (1 - indel_distance / (len1 + len2))        *)
(*                     = 100 * 2 * LCS / (len1 + len2), 100 for two empty  *)
(* strings.  Kept as the exact fraction n / d of the 0..1 similarity.      *)
(***************************************************************************)
\* Row j of the LCS table from row j - 1 (prev): row[i] is the LCS length of
\* a[1..i] and b[1..j].  With c = b[j], row[i] is the larger of prev[i] and
\* prev[k - 1] + 1 over the positions k <= i of a that hold c.
LcsRow(prev, a, c) ==
    LET At(i) == IF i = 0 THEN 0 ELSE prev[i]
        Ext(i) == {At(k - 1) + 1 : k \in {m \in 1..i : a[m] = c}}
        RowMax(i) == CHOOSE v \in Ext(i) \cup {At(i)} :
                       \A w \in Ext(i) \cup {At(i)} : w <= v
    IN  SubSeq([i \in 1..Len(a) |-> RowMax(i)], 1, Len(a))

RECURSIVE LcsRows(_, _, _, _)
LcsRows(a, b, j, prev) ==
    IF j > Len(b) THEN prev
    ELSE LcsRows(a, b, j + 1, LcsRow(prev, a, b[j]))

\* length of the longest common subsequence
Lcs(a, b) ==
    IF a = <<>> \/ b = <<>> THEN 0
    ELSE LcsRows(a, b, 1, [i \in 1..Len(a) |-> 0])[Len(a)]

FuzzRatio(a, b) ==
    IF Len(a) + Len(b) = 0 THEN [n |-> 1, d |-> 1]
    ELSE [n |-> 2 * Lcs(a, b), d |-> Len(a) + Len(b)]

(***************************************************************************)
(* Confidence scores.  The code computes them in IEEE-754 doubles; a score *)
(* is the exact fraction n / d plus e units in the last place.  Every      *)
(* comparison the code makes agrees with the exact fractions, with one     *)
(* exception: 0.8 + (1.0 - 0.5) * 0.3 evaluates to 0.9500000000000001,     *)
(* one unit above the double 0.95.                                         *)
(***************************************************************************)
Score(n, d, e) == [n |-> n, d |-> d, e |-> e]

ScoreGT(x, y) ==
    \/ x.n * y.d > y.n * x.d
    \/ x.n * y.d = y.n * x.d /\ x.e > y.e

ScoreEQ(x, y) == x.n * y.d = y.n * x.d /\ x.e = y.e

ScoreGE(x, y) == ScoreGT(x, y) \/ ScoreEQ(x, y)

ScoreZero == Score(0, 1, 0)
ScoreOne  == Score(1, 1, 0)

(***************************************************************************)
(* HeaderMapper.__init__: common_aliases, in source order                  *)
(***************************************************************************)
common_aliases == <<
    [key |-> <<"o","r","d","e","r","_","i","d">>, aliases |-> <<<<"o","r","d","e","r"," ","i","d">>, <<"o","r","d","e","r"," ","n","o">>, <<"r","e","f","e","r","e","n","c","e">>>>],
    [key |-> <<"o","r","d","e","r","_","d","a","t","e">>, aliases |-> <<<<"o","r","d","e","r","d","a","t","e">>, <<"o","r","d","e","r","e","d","_","o","n">>>>],
    [key |-> <<"c","u","s","t","o","m","e","r","_","i","d">>, aliases |-> <<<<"c","u","s","t"," ","i","d">>, <<"c","l","i","e","n","t","_","r","e","f">>>>],
    [key |-> <<"c","u","s","t","o","m","e","r","_","n","a","m","e">>, aliases |-> <<<<"c","u","s","t","o","m","e","r">>, <<"c","l","i","e","n","t","_","n","a","m","e">>>>],
    [key |-> <<"e","m","a","i","l">>, aliases |-> <<<<"c","o","n","t","a","c","t">>, <<"e","m","a","i","l"," ","a","d","d","r","e","s","s">>, <<"e","-","m","a","i","l">>, <<"m","a","i","l">>>>],
    [key |-> <<"p","h","o","n","e">>, aliases |-> <<<<"m","o","b","i","l","e">>, <<"p","h","o","n","e"," ","n","u","m","b","e","r">>, <<"t","e","l","e","p","h","o","n","e">>, <<"c","o","n","t","a","c","t"," ","n","u","m","b","e","r">>>>],
    [key |-> <<"b","i","l","l","i","n","g","_","a","d","d","r","e","s","s">>, aliases |-> <<<<"b","i","l","l"," ","a","d","d","r">>, <<"b","i","l","l","_","t","o">>>>],
    [key |-> <<"s","h","i","p","p","i","n","g","_","a","d","d","r","e","s","s">>, aliases |-> <<<<"s","h","i","p"," ","a","d","d","r">>, <<"s","h","i","p","_","t","o">>>>],
    [key |-> <<"c","i","t","y">>, aliases |-> <<<<"t","o","w","n">>, <<"l","o","c","a","l","i","t","y">>, <<"c","i","t","y">>>>],
    [key |-> <<"s","t","a","t","e">>, aliases |-> <<<<"s","t","a","t","e","/","p","r","o","v","i","n","c","e">>, <<"r","e","g","i","o","n">>>>],
    [key |-> <<"p","o","s","t","a","l","_","c","o","d","e">>, aliases |-> <<<<"z","i","p">>, <<"z","i","p"," ","c","o","d","e">>, <<"p","o","s","t","c","o","d","e">>, <<"p","o","s","t","a","l">>, <<"z","i","p","/","p","o","s","t","a","l">>, <<"p","i","n">>>>],
    [key |-> <<"c","o","u","n","t","r","y">>, aliases |-> <<<<"c","o","u","n","t","r","y","/","r","e","g","i","o","n">>, <<"n","a","t","i","o","n">>>>],
    [key |-> <<"p","r","o","d","u","c","t","_","s","k","u">>, aliases |-> <<<<"s","k","u">>, <<"s","t","o","c","k","_","c","o","d","e">>>>],
    [key |-> <<"p","r","o","d","u","c","t","_","n","a","m","e">>, aliases |-> <<<<"i","t","e","m">>, <<"d","e","s","c">>>>],
    [key |-> <<"c","a","t","e","g","o","r","y">>, aliases |-> <<<<"c","a","t",".">>>>],
    [key |-> <<"s","u","b","c","a","t","e","g","o","r","y">>, aliases |-> <<<<"s","u","b","c","a","t">>>>],
    [key |-> <<"q","u","a","n","t","i","t","y">>, aliases |-> <<<<"q","t","y">>>>],
    [key |-> <<"u","n","i","t","_","p","r","i","c","e">>, aliases |-> <<<<"p","r","i","c","e">>, <<"u","n","i","t"," ","p","r","i","c","e">>>>],
    [key |-> <<"c","u","r","r","e","n","c","y">>, aliases |-> <<<<"c","u","r","r","e","n","c","y">>>>],
    [key |-> <<"d","i","s","c","o","u","n","t","_","p","c","t">>, aliases |-> <<<<"d","i","s","c","%">>, <<"d","i","s","c","o","u","n","t">>>>],
    [key |-> <<"t","a","x","_","p","c","t">>, aliases |-> <<<<"t","a","x","%">>, <<"g","s","t">>>>],
    [key |-> <<"s","h","i","p","p","i","n","g","_","f","e","e">>, aliases |-> <<<<"s","h","i","p"," ","f","e","e">>, <<"l","o","g","i","s","t","i","c","s","_","f","e","e">>>>],
    [key |-> <<"t","o","t","a","l","_","a","m","o","u","n","t">>, aliases |-> <<<<"t","o","t","a","l">>, <<"g","r","a","n","d","_","t","o","t","a","l">>>>],
    [key |-> <<"t","a","x","_","i","d">>, aliases |-> <<<<"r","e","g"," ","n","o">>, <<"g","s","t","i","n">>>>],
    [key |-> <<"S","K","I","P">>, aliases |-> <<<<"c","o","u","p","o","n","_","c","o","d","e">>>>]
>>

\* self.common_aliases[canonical_field.lower()], <<>> when the key is absent
AliasesOf(canonical_field) ==
    LET lowered == Lower(canonical_field)
        hit == {i \in 1..Len(common_aliases) : common_aliases[i].key = lowered}
    IN  IF hit = {} THEN <<>> ELSE common_aliases[CHOOSE i \in hit : TRUE].aliases

(***************************************************************************)
(* HeaderMapper._find_best_match                                           *)
(***************************************************************************)
\* best_match = None
None == <<"<None>">>

Suggestion(field, conf, method) ==
    [mapped_field |-> field, confidence |-> conf, method |-> method]

\* return None
NoSuggestion == Suggestion(None, Score(0, 1, 0), "None")

Best(match, score, method) == [match |-> match, score |-> score, method |-> method]

\* fuzz.ratio(header_clean, normalize(alias)) > 85 for some alias of the field
AliasHit(header_clean, canonical_field) ==
    LET aliases == AliasesOf(canonical_field)
    IN  \E k \in 1..Len(aliases) :
            LET r == FuzzRatio(header_clean, _normalize_header(aliases[k]))
            IN  100 * r.n > 85 * r.d

AliasConfidence == Score(19, 20, 0)    \* score = 0.95

\* variant: >= in place of >, so a later equal score replaces the best so far
ImprovesOrTies(score, best) == ScoreGE(score, best.score)

\* if score > best_score: the comparison every heuristic uses
Improves(score, best) == ScoreGT(score, best.score)

ConsiderAlias(best, header_clean, canonical_field) ==
    IF AliasHit(header_clean, canonical_field) /\ Improves(AliasConfidence, best)
    THEN Best(canonical_field, AliasConfidence, "alias_match")
    ELSE best

\* jaccard_score = overlap / union, as the pair <<overlap, union>>
Jaccard(header_clean, canonical_clean) ==
    LET ht == Tokens(header_clean)
        ct == Tokens(canonical_clean)
    IN  <<Cardinality(ht \cap ct), Cardinality(ht \cup ct)>>

\* 0.8 + (jaccard_score - 0.5) * 0.3 = (13 * union + 6 * overlap) / (20 * union);
\* for jaccard_score = 1.0 the double sum is 0.9500000000000001
TokenConfidence(overlap, union) ==
    Score(13 * union + 6 * overlap, 20 * union, IF overlap = union THEN 1 ELSE 0)

\* if header_tokens and canonical_tokens: ... if jaccard_score > 0.5
TokenHit(header_clean, canonical_clean) ==
    /\ Tokens(header_clean) # {}
    /\ Tokens(canonical_clean) # {}
    /\ LET j == Jaccard(header_clean, canonical_clean) IN 2 * j[1] > j[2]

ConsiderTokens(best, header_clean, canonical_field) ==
    LET canonical_clean == _normalize_header(canonical_field)
        j == Jaccard(header_clean, canonical_clean)
    IN  IF /\ TokenHit(header_clean, canonical_clean)
           /\ Improves(TokenConfidence(j[1], j[2]), best)
        THEN Best(canonical_field, TokenConfidence(j[1], j[2]), "token_overlap")
        ELSE best

\* variant: the offset 0.7 is not subtracted, 0.6 + fuzzy_score * 0.5
FuzzyConfidenceUnshifted(r) == Score(6 * r.d + 5 * r.n, 10 * r.d, 0)

\* 0.6 + (fuzzy_score - 0.7) * 0.5 = (d + 2 * n) / (4 * d) for fuzzy_score = n / d
FuzzyConfidence(r) == Score(r.d + 2 * r.n, 4 * r.d, 0)

\* fuzzy_score > 0.7
FuzzyHit(r) == 10 * r.n > 7 * r.d

ConsiderFuzzy(best, header_clean, canonical_field) ==
    LET r == FuzzRatio(header_clean, _normalize_header(canonical_field))
    IN  IF FuzzyHit(r) /\ Improves(FuzzyConfidence(r), best)
        THEN Best(canonical_field, FuzzyConfidence(r), "fuzzy_match")
        ELSE best

\* the body of the loop over canonical_fields after the exact-match test
ConsiderField(best, header_clean, canonical_field) ==
    ConsiderFuzzy(
        ConsiderTokens(
            ConsiderAlias(best, header_clean, canonical_field),
            header_clean, canonical_field),
        header_clean, canonical_field)

\* if best_match and best_score > 0.6
Emit(best) ==
    IF best.match # None /\ best.match # <<>> /\ ScoreGT(best.score, Score(6, 10, 0))
    THEN Suggestion(best.match, best.score, best.method)
    ELSE NoSuggestion

\* variant: the exact-match test does not return; an equal header is scored by the
\* heuristics like any other
RECURSIVE ScanFieldsNoExactReturn(_, _, _, _)
ScanFieldsNoExactReturn(header_clean, fields, i, best) ==
    IF i > Len(fields) THEN Emit(best)
    ELSE ScanFieldsNoExactReturn(header_clean, fields, i + 1,
                                 ConsiderField(best, header_clean, fields[i]))

\* for canonical_field in canonical_fields: ..., from index i with best so far
RECURSIVE ScanFields(_, _, _, _)
ScanFields(header_clean, fields, i, best) ==
    IF i > Len(fields) THEN Emit(best)
    ELSE IF header_clean = _normalize_header(fields[i])
         THEN Suggestion(fields[i], ScoreOne, "exact_match")
         ELSE ScanFields(header_clean, fields, i + 1,
                         ConsiderField(best, header_clean, fields[i]))

\* variant: the promoted aliases are looked up only when the scan finds nothing
FindBestMatchScanFirst(header, fields, aliases) ==
    LET scanned == ScanFields(_normalize_header(header), fields, 1,
                              Best(None, ScoreZero, "None"))
    IN  IF scanned # NoSuggestion THEN scanned
        ELSE IF header \in DOMAIN aliases
             THEN Suggestion(aliases[header], ScoreOne, "promoted_alias")
             ELSE NoSuggestion

_find_best_match(header, fields, aliases) ==
    IF header \in DOMAIN aliases
    THEN Suggestion(aliases[header], ScoreOne, "promoted_alias")
    ELSE ScanFields(_normalize_header(header), fields, 1,
                    Best(None, ScoreZero, "None"))

(***************************************************************************)
(* HeaderMapper.suggest_mappings                                           *)
(***************************************************************************)
SuggestMappingsResult(headers, fields, aliases) ==
    LET found == {headers[i] : i \in
                    {k \in 1..Len(headers) :
                        _find_best_match(headers[k], fields, aliases) # NoSuggestion}}
    IN  [h \in found |-> _find_best_match(h, fields, aliases)]


(***************************************************************************)
(* Cell values.  A cell is NaN (the float null marker), None, a str or a   *)
(* float; v holds the characters of the str, or of the float's repr.       *)
(***************************************************************************)
NaN == [t |-> "nan", v |-> <<>>]

PyNone == [t |-> "none", v |-> <<>>]

Str(s) == [t |-> "str", v |-> s]

Num(r) == [t |-> "num", v |-> r]

\* pd.isna(value)
IsNa(value) == value.t \in {"nan", "none"}

\* str(value) of a non-null cell
PyStr(value) == value.v

(***************************************************************************)
(* float(str) and repr(float).  A parsed decimal is its sign, its          *)
(* significant digits sig (no leading or trailing zero, empty for zero)    *)
(* and the power of ten x of the first of them.  A decimal of at most 15   *)
(* significant digits survives the round trip through a double, so repr    *)
(* shows exactly these digits.                                             *)
(***************************************************************************)
RECURSIVE ToNat(_)
ToNat(ds) ==
    IF ds = <<>> THEN 0
    ELSE 10 * ToNat(SubSeq(ds, 1, Len(ds) - 1)) + (IndexIn(ds[Len(ds)], DigitSeq) - 1)

RECURSIVE NatStr(_)
NatStr(n) ==
    IF n < 10 THEN <<DigitSeq[n + 1]>> ELSE NatStr(n \div 10) \o <<DigitSeq[(n % 10) + 1]>>

Zeros(n) == [i \in 1..n |-> "0"]

\* n written with at least w digits
Padded(n, w) == Zeros(w - Len(NatStr(n))) \o NatStr(n)

AllDigits(s) == \A i \in 1..Len(s) : IsDigitChar(s[i])

NoFloat == [ok |-> FALSE, neg |-> FALSE, sig |-> <<>>, x |-> 0]

\* digits [. digits] with at least one digit, times ten to the exp
Mantissa(neg, m, exp) ==
    LET dots == {i \in 1..Len(m) : m[i] = "."}
        dot == IF dots = {} THEN Len(m) + 1 ELSE CHOOSE i \in dots : TRUE
        int_part == SubSeq(m, 1, dot - 1)
        all == int_part \o SubSeq(m, dot + 1, Len(m))
        nz == {i \in 1..Len(all) : all[i] # "0"}
        first == CHOOSE i \in nz : \A j \in nz : i <= j
        last == CHOOSE i \in nz : \A j \in nz : j <= i
    IN  IF Cardinality(dots) > 1 \/ all = <<>> \/ ~AllDigits(all) THEN NoFloat
        ELSE IF nz = {} THEN [ok |-> TRUE, neg |-> neg, sig |-> <<>>, x |-> 0]
        ELSE [ok |-> TRUE, neg |-> neg, sig |-> SubSeq(all, first, last),
              x |-> Len(int_part) - first + exp]

\* the decimal exponent after 'e': [+-] digits
Exponent(s) ==
    LET neg == s # <<>> /\ s[1] = "-"
        ds == IF s # <<>> /\ s[1] \in {"+", "-"} THEN Tail(s) ELSE s
    IN  IF ds = <<>> \/ ~AllDigits(ds) THEN [ok |-> FALSE, n |-> 0]
        ELSE [ok |-> TRUE, n |-> IF neg THEN 0 - ToNat(ds) ELSE ToNat(ds)]

\* float(s): surrounding whitespace, a sign, a mantissa and an optional
\* exponent; ok is FALSE where float raises ValueError.  (The words inf and
\* nan, which float also accepts, are in none of the inputs.)
PyFloat(s) ==
    LET t == Strip(s)
        neg == t # <<>> /\ t[1] = "-"
        u == IF t # <<>> /\ t[1] \in {"+", "-"} THEN Tail(t) ELSE t
        es == {i \in 1..Len(u) : u[i] \in {"e", "E"}}
        e == CHOOSE i \in es : TRUE
        exp == Exponent(SubSeq(u, e + 1, Len(u)))
    IN  IF es = {} THEN Mantissa(neg, u, 0)
        ELSE IF Cardinality(es) > 1 \/ ~exp.ok THEN NoFloat
        ELSE Mantissa(neg, SubSeq(u, 1, e - 1), exp.n)

\* repr(float): positional for 1e-4 <= |f| < 1e16, else scientific with an
\* exponent of at least two digits
FloatRepr(f) ==
    LET sign == IF f.neg THEN <<"-">> ELSE <<>>
        n == Len(f.sig)
        positional ==
            IF f.x >= 0
            THEN (IF n >= f.x + 1 THEN SubSeq(f.sig, 1, f.x + 1)
                                  ELSE f.sig \o Zeros(f.x + 1 - n))
                 \o <<".">>
                 \o (IF n > f.x + 1 THEN SubSeq(f.sig, f.x + 2, n) ELSE <<"0">>)
            ELSE <<"0", ".">> \o Zeros((0 - f.x) - 1) \o f.sig
        scientific ==
            <<f.sig[1]>> \o (IF n > 1 THEN <<".">> \o Tail(f.sig) ELSE <<>>)
            \o <<"e">>
            \o (IF f.x < 0 THEN <<"-">> \o Padded(0 - f.x, 2)
                           ELSE <<"+">> \o Padded(f.x, 2))
    IN  IF f.sig = <<>> THEN sign \o <<"0", ".", "0">>
        ELSE IF f.x >= -4 /\ f.x < 16 THEN sign \o positional
        ELSE sign \o scientific

\* float.is_integer()
IsInteger(f) == f.sig = <<>> \/ Len(f.sig) - 1 <= f.x

(***************************************************************************)
(* DataCleaner: the cleaning functions                                     *)
(***************************************************************************)
NotSpaceChar(c) == ~IsSpaceChar(c)

\* the characters re.sub(r'[^\d.-]', '', s) keeps
IsNumericChar(c) == IsDigitChar(c) \/ c \in {".", "-"}

IsLetter(c) == c \in LowerLetters \cup UpperLetters

\* the returns of _clean_phone without the '+91' fallback of cleaner.py:165-166
FormatPhoneTwelveOnly(digits_only) ==
    IF Len(digits_only) = 12
    THEN <<"+">> \o SubSeq(digits_only, 1, 2) \o <<" ">> \o SubSeq(digits_only, 3, 7)
         \o <<" ">> \o SubSeq(digits_only, 8, 12)
    ELSE digits_only

\* the returns of _clean_phone (cleaner.py:163-167)
FormatPhone(digits_only) ==
    LET n == Len(digits_only)
    IN  IF n = 12
        THEN <<"+">> \o SubSeq(digits_only, 1, 2) \o <<" ">>
             \o SubSeq(digits_only, 3, 7) \o <<" ">> \o SubSeq(digits_only, 8, 12)
        ELSE IF n >= 10
        THEN <<"+","9","1"," ">> \o SubSeq(digits_only, n - 9, n - 5) \o <<" ">>
             \o SubSeq(digits_only, n - 4, n)
        ELSE digits_only

_clean_phone(value) ==
    IF IsNa(value) THEN value
    ELSE LET digits_only == SelectSeq(PyStr(value), IsDigitChar)
             with_country ==
                 IF Len(digits_only) = 10 THEN <<"9","1">> \o digits_only
                 ELSE IF Len(digits_only) = 11 /\ digits_only[1] = "0"
                      THEN <<"9","1">> \o Tail(digits_only)
                      ELSE digits_only
         IN  Str(FormatPhone(with_country))

common_fixes == <<
    [key |-> <<"g","a","m","i","l",".","c","o","m">>,   fix |-> <<"g","m","a","i","l",".","c","o","m">>],
    [key |-> <<"g","m","i","a","l",".","c","o","m">>,   fix |-> <<"g","m","a","i","l",".","c","o","m">>],
    [key |-> <<"g","m","a","i",".","c","o","m">>,    fix |-> <<"g","m","a","i","l",".","c","o","m">>],
    [key |-> <<"y","a","h","o","o","o",".","c","o","m">>,  fix |-> <<"y","a","h","o","o",".","c","o","m">>],
    [key |-> <<"y","a","h","o",".","c","o","m">>,    fix |-> <<"y","a","h","o","o",".","c","o","m">>],
    [key |-> <<"h","o","t","m","i","a","l",".","c","o","m">>, fix |-> <<"h","o","t","m","a","i","l",".","c","o","m">>],
    [key |-> <<"h","o","t","m","i","l",".","c","o","m">>,  fix |-> <<"h","o","t","m","a","i","l",".","c","o","m">>] >>

\* table.get(key, key) for a table of records [key, fix]
Lookup(table, key) ==
    LET hits == {i \in 1..Len(table) : table[i].key = key}
    IN  IF hits = {} THEN key ELSE table[CHOOSE i \in hits : TRUE].fix

_clean_email(value) ==
    IF IsNa(value) THEN value
    ELSE LET email_str == SelectSeq(Lower(Strip(PyStr(value))), NotSpaceChar)
             at == FirstIndex(email_str, "@")
             local == SubSeq(email_str, 1, at - 1)
             domain == SubSeq(email_str, at + 1, Len(email_str))
         IN  IF at = 0 THEN Str(email_str)
             ELSE Str(local \o <<"@">> \o Lookup(common_fixes, domain))

_clean_tax_id(value) ==
    IF IsNa(value) THEN value
    ELSE Str(SelectSeq(Upper(Strip(PyStr(value))), IsWordChar))

_clean_postal_code(value) ==
    IF IsNa(value) THEN value
    ELSE Str(Upper(SelectSeq(Strip(PyStr(value)), IsWordChar)))

\* a _clean_currency that hands back the text it could not parse
_clean_currency_text(value) ==
    IF IsNa(value) THEN value
    ELSE LET cleaned == SelectSeq(Strip(PyStr(value)), IsNumericChar)
         IN  IF PyFloat(cleaned).ok THEN Num(FloatRepr(PyFloat(cleaned))) ELSE Str(cleaned)

_clean_currency(value) ==
    IF IsNa(value) THEN value
    ELSE LET cleaned == SelectSeq(Strip(PyStr(value)), IsNumericChar)
         IN  IF PyFloat(cleaned).ok THEN Num(FloatRepr(PyFloat(cleaned))) ELSE NaN

currency_mapping == <<
    [key |-> <<"₹">>,   fix |-> <<"I","N","R">>],
    [key |-> <<"R","S">>,  fix |-> <<"I","N","R">>],
    [key |-> <<"I","N","R">>, fix |-> <<"I","N","R">>],
    [key |-> <<"U","S","D">>, fix |-> <<"U","S","D">>],
    [key |-> <<"$">>,  fix |-> <<"U","S","D">>],
    [key |-> <<"E","U","R">>, fix |-> <<"E","U","R">>],
    [key |-> <<"€">>,   fix |-> <<"E","U","R">>] >>

_clean_currency_code(value) ==
    IF IsNa(value) THEN value
    ELSE Str(Lookup(currency_mapping, Upper(Strip(PyStr(value)))))

_clean_number(value) ==
    IF IsNa(value) THEN value
    ELSE LET cleaned == SelectSeq(Strip(PyStr(value)), IsNumericChar)
         IN  IF PyFloat(cleaned).ok THEN Num(FloatRepr(PyFloat(cleaned))) ELSE NaN

_clean_website(value) ==
    IF IsNa(value) THEN value
    ELSE LET url_str == Lower(Strip(PyStr(value)))
         IN  IF StartsWith(url_str, <<"h","t","t","p",":","/","/">>) \/ StartsWith(url_str, <<"h","t","t","p","s",":","/","/">>)
             THEN Str(url_str)
             ELSE Str(<<"h","t","t","p","s",":","/","/">> \o url_str)

\* str.title(): a letter is upper-cased after a non-letter, lower-cased after a
\* letter
Title(s) ==
    [i \in 1..Len(s) |->
        IF i > 1 /\ IsLetter(s[i - 1]) THEN LowerChar(s[i]) ELSE UpperChar(s[i])]

_clean_text(value) ==
    IF IsNa(value) THEN value
    ELSE Str(Title(CollapseSpaces(Strip(PyStr(value)))))

(***************************************************************************)
(* Dates.  dateutil.parser.parse is a library; it is modelled on the       *)
(* shapes the inputs have: three numeric fields separated by '-' or '/'    *)
(* with a four-digit year first or last, 'Mon D, YYYY', and text without   *)
(* any date in it, which the parser rejects.                               *)
(***************************************************************************)
RECURSIVE SplitAt(_, _)
SplitAt(s, seps) ==
    LET idx == {i \in 1..Len(s) : s[i] \in seps}
        i == CHOOSE k \in idx : \A m \in idx : k <= m
    IN  IF idx = {} THEN <<s>>
        ELSE <<SubSeq(s, 1, i - 1)>> \o SplitAt(SubSeq(s, i + 1, Len(s)), seps)

MonthNames == <<<<"j","a","n">>, <<"f","e","b">>, <<"m","a","r">>, <<"a","p","r">>, <<"m","a","y">>, <<"j","u","n">>,
                <<"j","u","l">>, <<"a","u","g">>, <<"s","e","p">>, <<"o","c","t">>, <<"n","o","v">>, <<"d","e","c">>>>

IsLeap(y) == y % 4 = 0 /\ (y % 100 # 0 \/ y % 400 = 0)

DaysIn(y, m) ==
    IF m = 2 THEN (IF IsLeap(y) THEN 29 ELSE 28)
    ELSE IF m \in {4, 6, 9, 11} THEN 30 ELSE 31

\* datetime(y, m, d) raises ValueError outside the calendar
IsDate(y, m, d) == y >= 1 /\ m \in 1..12 /\ d >= 1 /\ d <= DaysIn(y, m)

NoDate == [ok |-> FALSE, y |-> 0, m |-> 0, d |-> 0]

Date(y, m, d) == IF IsDate(y, m, d) THEN [ok |-> TRUE, y |-> y, m |-> m, d |-> d] ELSE NoDate

IsShortNumber(s) == Len(s) \in 1..2 /\ AllDigits(s)

IsYear(s) == Len(s) = 4 /\ AllDigits(s)

\* parser.parse(s) with dayfirst and yearfirst at their defaults
ParseDate(s) ==
    LET f == SplitAt(s, {"-", "/"})
        w == SplitAt(s, {" "})
        months == {k \in 1..12 : Len(w) = 3 /\ Lower(w[1]) = MonthNames[k]}
    IN  IF Len(f) = 3 /\ IsYear(f[1]) /\ IsShortNumber(f[2]) /\ IsShortNumber(f[3])
        THEN Date(ToNat(f[1]), ToNat(f[2]), ToNat(f[3]))
        ELSE IF Len(f) = 3 /\ IsShortNumber(f[1]) /\ IsShortNumber(f[2]) /\ IsYear(f[3])
        THEN (IF ToNat(f[1]) > 12
              THEN Date(ToNat(f[3]), ToNat(f[2]), ToNat(f[1]))
              ELSE Date(ToNat(f[3]), ToNat(f[1]), ToNat(f[2])))
        ELSE IF /\ months # {}
                /\ Len(w[2]) \in 2..3 /\ w[2][Len(w[2])] = ","
                /\ AllDigits(SubSeq(w[2], 1, Len(w[2]) - 1))
                /\ IsYear(w[3])
        THEN Date(ToNat(w[3]), CHOOSE k \in months : TRUE,
                  ToNat(SubSeq(w[2], 1, Len(w[2]) - 1)))
        ELSE NoDate

\* strftime('%Y-%m-%d')
FormatDate(dt) == Padded(dt.y, 4) \o <<"-">> \o Padded(dt.m, 2) \o <<"-">> \o Padded(dt.d, 2)

_clean_date(value) ==
    IF IsNa(value) THEN value
    ELSE LET parsed_date == ParseDate(Strip(PyStr(value)))
         IN  IF parsed_date.ok THEN Str(FormatDate(parsed_date)) ELSE Str(PyStr(value))

(***************************************************************************)
(* DataCleaner: the validation functions                                   *)
(***************************************************************************)
\* a regex '$' also matches before a final newline
BeforeFinalNewline(s) ==
    IF s # <<>> /\ s[Len(s)] = "\n" THEN SubSeq(s, 1, Len(s) - 1) ELSE s

\* ^\+\d{1,3} \d{5} \d{5}$
_validate_phone(value) ==
    IF IsNa(value) THEN FALSE
    ELSE LET s == BeforeFinalNewline(PyStr(value))
             f == SplitAt(s, {" "})
         IN  /\ Len(f) = 3
             /\ Len(f[1]) \in 2..4 /\ f[1][1] = "+" /\ AllDigits(Tail(f[1]))
             /\ Len(f[2]) = 5 /\ AllDigits(f[2])
             /\ Len(f[3]) = 5 /\ AllDigits(f[3])

IsAlnum(c) == IsLetter(c) \/ IsDigitChar(c)

IsEmailLocalChar(c) == IsAlnum(c) \/ c \in {".", "_", "%", "+", "-"}

IsEmailDomainChar(c) == IsAlnum(c) \/ c \in {".", "-"}

\* ^[a-zA-Z0-9._%+-]+@[a-zA-Z0-9.-]+\.[a-zA-Z]{2,}$
_validate_email(value) ==
    IF IsNa(value) THEN FALSE
    ELSE LET s == BeforeFinalNewline(PyStr(value))
             n == Len(s)
         IN  \E at \in 2..n : \E dot \in (at + 2)..(n - 2) :
                /\ s[at] = "@" /\ s[dot] = "."
                /\ \A i \in 1..(at - 1) : IsEmailLocalChar(s[i])
                /\ \A i \in (at + 1)..(dot - 1) : IsEmailDomainChar(s[i])
                /\ \A i \in (dot + 1)..n : IsLetter(s[i])

IsUpperAlnum(c) == c \in UpperLetters \/ IsDigitChar(c)

\* ^[A-Z0-9]{8,15}$
_validate_tax_id(value) ==
    IF IsNa(value) THEN FALSE
    ELSE LET s == BeforeFinalNewline(PyStr(value))
         IN  Len(s) \in 8..15 /\ \A i \in 1..Len(s) : IsUpperAlnum(s[i])

\* ^[A-Z0-9]{4,10}$
_validate_postal_code(value) ==
    IF IsNa(value) THEN FALSE
    ELSE LET s == BeforeFinalNewline(PyStr(value))
         IN  Len(s) \in 4..10 /\ \A i \in 1..Len(s) : IsUpperAlnum(s[i])

\* float(value) of a float is the float; of a str, its parse
_validate_number(value) ==
    IF IsNa(value) THEN FALSE ELSE PyFloat(PyStr(value)).ok

_validate_integer(value) ==
    IF IsNa(value) THEN FALSE
    ELSE LET val == PyFloat(PyStr(value))
         IN  val.ok /\ IsInteger(val) /\ (~val.neg \/ val.sig = <<>>)

\* datetime.strptime(str(value), '%Y-%m-%d')
_validate_date(value) ==
    IF IsNa(value) THEN FALSE
    ELSE LET f == SplitAt(PyStr(value), {"-"})
         IN  /\ Len(f) = 3
             /\ IsYear(f[1])
             /\ IsShortNumber(f[2]) /\ f[2] \notin {<<"0">>, <<"0","0">>}
             /\ \/ IsShortNumber(f[3]) /\ f[3] \notin {<<"0">>, <<"0","0">>}
                \/ Len(f[3]) = 2 /\ f[3][1] = " " /\ f[3][2] \in Digits \ {"0"}
             /\ IsDate(ToNat(f[1]), ToNat(f[2]), ToNat(SelectSeq(f[3], IsDigitChar)))

\* ^https?://[^\s/$.?#].[^\s]*$
_validate_website(value) ==
    IF IsNa(value) THEN FALSE
    ELSE LET s == BeforeFinalNewline(PyStr(value))
             rest == IF StartsWith(s, <<"h","t","t","p",":","/","/">>) THEN SubSeq(s, 8, Len(s))
                     ELSE IF StartsWith(s, <<"h","t","t","p","s",":","/","/">>) THEN SubSeq(s, 9, Len(s))
                     ELSE <<>>
         IN  /\ Len(rest) >= 2
             /\ ~IsSpaceChar(rest[1]) /\ rest[1] \notin Range(<<"/","$",".","?","#">>)
             /\ rest[2] # "\n"
             /\ \A i \in 3..Len(rest) : ~IsSpaceChar(rest[i])

_validate_text(value) ==
    IF IsNa(value) THEN FALSE ELSE Len(Strip(PyStr(value))) > 0

(***************************************************************************)
(* DataCleaner.__init__: the two rule tables, in registration order        *)
(***************************************************************************)
cleaning_rules == <<
    [key |-> <<"p","h","o","n","e">>,            func |-> "_clean_phone"],
    [key |-> <<"e","m","a","i","l">>,            func |-> "_clean_email"],
    [key |-> <<"t","a","x","_","i","d">>,           func |-> "_clean_tax_id"],
    [key |-> <<"p","o","s","t","a","l","_","c","o","d","e">>,      func |-> "_clean_postal_code"],
    [key |-> <<"r","e","v","e","n","u","e">>,          func |-> "_clean_currency"],
    [key |-> <<"e","m","p","l","o","y","e","e","s">>,        func |-> "_clean_number"],
    [key |-> <<"d","a","t","e","_","e","s","t","a","b","l","i","s","h","e","d">>, func |-> "_clean_date"],
    [key |-> <<"w","e","b","s","i","t","e">>,          func |-> "_clean_website"],
    [key |-> <<"c","o","m","p","a","n","y","_","n","a","m","e">>,     func |-> "_clean_text"],
    [key |-> <<"a","d","d","r","e","s","s">>,          func |-> "_clean_text"],
    [key |-> <<"c","i","t","y">>,             func |-> "_clean_text"],
    [key |-> <<"s","t","a","t","e">>,            func |-> "_clean_text"],
    [key |-> <<"c","o","u","n","t","r","y">>,          func |-> "_clean_text"],
    [key |-> <<"i","n","d","u","s","t","r","y">>,         func |-> "_clean_text"],
    [key |-> <<"c","o","n","t","a","c","t","_","p","e","r","s","o","n">>,   func |-> "_clean_text"],
    [key |-> <<"c","u","r","r","e","n","c","y">>,         func |-> "_clean_currency_code"] >>

validation_rules == <<
    [key |-> <<"p","h","o","n","e">>,            func |-> "_validate_phone"],
    [key |-> <<"e","m","a","i","l">>,            func |-> "_validate_email"],
    [key |-> <<"t","a","x","_","i","d">>,           func |-> "_validate_tax_id"],
    [key |-> <<"p","o","s","t","a","l","_","c","o","d","e">>,      func |-> "_validate_postal_code"],
    [key |-> <<"r","e","v","e","n","u","e">>,          func |-> "_validate_number"],
    [key |-> <<"e","m","p","l","o","y","e","e","s">>,        func |-> "_validate_integer"],
    [key |-> <<"d","a","t","e","_","e","s","t","a","b","l","i","s","h","e","d">>, func |-> "_validate_date"],
    [key |-> <<"w","e","b","s","i","t","e">>,          func |-> "_validate_website"],
    [key |-> <<"c","o","m","p","a","n","y","_","n","a","m","e">>,     func |-> "_validate_text"],
    [key |-> <<"a","d","d","r","e","s","s">>,          func |-> "_validate_text"],
    [key |-> <<"c","i","t","y">>,             func |-> "_validate_text"],
    [key |-> <<"s","t","a","t","e">>,            func |-> "_validate_text"],
    [key |-> <<"c","o","u","n","t","r","y">>,          func |-> "_validate_text"],
    [key |-> <<"i","n","d","u","s","t","r","y">>,         func |-> "_validate_text"],
    [key |-> <<"c","o","n","t","a","c","t","_","p","e","r","s","o","n">>,   func |-> "_validate_text"],
    [key |-> <<"c","u","r","r","e","n","c","y">>,         func |-> "_validate_text"] >>

\* rule_func(value) for a cleaning function
CallCleaner(func, value) ==
    CASE func = "_clean_phone"         -> _clean_phone(value)
      [] func = "_clean_email"         -> _clean_email(value)
      [] func = "_clean_tax_id"        -> _clean_tax_id(value)
      [] func = "_clean_postal_code"   -> _clean_postal_code(value)
      [] func = "_clean_currency"      -> _clean_currency(value)
      [] func = "_clean_number"        -> _clean_number(value)
      [] func = "_clean_date"          -> _clean_date(value)
      [] func = "_clean_website"       -> _clean_website(value)
      [] func = "_clean_text"          -> _clean_text(value)
      [] func = "_clean_currency_code" -> _clean_currency_code(value)

\* rule_func(value) for a validation function
CallValidator(func, value) ==
    CASE func = "_validate_phone"       -> _validate_phone(value)
      [] func = "_validate_email"       -> _validate_email(value)
      [] func = "_validate_tax_id"      -> _validate_tax_id(value)
      [] func = "_validate_postal_code" -> _validate_postal_code(value)
      [] func = "_validate_number"      -> _validate_number(value)
      [] func = "_validate_integer"     -> _validate_integer(value)
      [] func = "_validate_date"        -> _validate_date(value)
      [] func = "_validate_website"     -> _validate_website(value)
      [] func = "_validate_text"        -> _validate_text(value)

\* rules[key]
RuleUnder(rules, key) == rules[CHOOSE i \in 1..Len(rules) : rules[i].key = key].func

\* the loop over rules.items() with the other break: the last key that is a
\* substring of the lower-cased column name, 0 when there is none
LastRule(rules, column_lower) ==
    LET hits == {i \in 1..Len(rules) : Contains(column_lower, rules[i].key)}
    IN  IF hits = {} THEN 0 ELSE CHOOSE i \in hits : \A j \in hits : j <= i

\* the loop over rules.items() with its break: the first key that is a substring
\* of the lower-cased column name, 0 when there is none
FirstRule(rules, column_lower) ==
    LET hits == {i \in 1..Len(rules) : Contains(column_lower, rules[i].key)}
    IN  IF hits = {} THEN 0 ELSE CHOOSE i \in hits : \A j \in hits : i <= j

(***************************************************************************)
(* Datasets.  A DataFrame is the sequence of its columns; a column has a   *)
(* name, a dtype ("float64" or "object") and one cell per row.             *)
(***************************************************************************)
Column(name, dtype, cells) == [name |-> name, dtype |-> dtype, cells |-> cells]

\* df.loc[:, ~df.columns.duplicated()]: the first column of each name
RECURSIVE DropDuplicated(_)
DropDuplicated(frame) ==
    IF frame = <<>> THEN <<>>
    ELSE LET n == Len(frame)
             front == DropDuplicated(SubSeq(frame, 1, n - 1))
         IN  IF \E j \in 1..(n - 1) : frame[j].name = frame[n].name
             THEN front ELSE Append(front, frame[n])

\* the dtype pandas infers for the result of Series.apply: float64 when no
\* cell is a str and some cell is a float (NaN included), else object
InferDtype(cells) ==
    IF /\ \A i \in 1..Len(cells) : cells[i].t # "str"
       /\ \E i \in 1..Len(cells) : cells[i].t \in {"num", "nan"}
    THEN "float64" ELSE "object"

\* column.apply(lambda x: cleaning_func(x) if pd.notna(x) else x)
ApplyCleaner(func, col) ==
    LET cells == [i \in 1..Len(col.cells) |->
                    IF IsNa(col.cells[i]) THEN col.cells[i]
                    ELSE CallCleaner(func, col.cells[i])]
    IN  Column(col.name, InferDtype(cells), cells)

\* the type-specific step of clean_dataframe for one column
CleanStep(col) ==
    LET rule == FirstRule(cleaning_rules, Lower(col.name))
    IN  IF rule = 0 THEN col ELSE ApplyCleaner(cleaning_rules[rule].func, col)

\* pd.api.types.is_numeric_dtype
is_numeric_dtype(col) == col.dtype = "float64"

\* a fill that takes every column for a text column
FillNaUnknown(col) ==
    [col EXCEPT !.cells = [i \in 1..Len(col.cells) |->
        IF IsNa(col.cells[i]) THEN Str(<<"U","n","k","n","o","w","n">>) ELSE col.cells[i]]]

\* fillna(0) for a numeric column, fillna("Unknown") for any other
FillNa(col) ==
    [col EXCEPT !.cells = [i \in 1..Len(col.cells) |->
        IF ~IsNa(col.cells[i]) THEN col.cells[i]
        ELSE IF is_numeric_dtype(col) THEN Num(<<"0",".","0">>) ELSE Str(<<"U","n","k","n","o","w","n">>)]]

clean_dataframe(frame) ==
    LET deduped == DropDuplicated(frame)
    IN  [c \in 1..Len(deduped) |-> FillNa(CleanStep(deduped[c]))]

\* the counts with invalid_mask = ~valid_mask, without the notna() of
\* cleaner.py:105
CountsNullsInvalid(func, col) ==
    LET rows == 1..Len(col.cells)
        valid == {i \in rows : ~IsNa(col.cells[i]) /\ CallValidator(func, col.cells[i])}
        nulls == {i \in rows : IsNa(col.cells[i])}
        total_count == Len(col.cells)
    IN  [valid_count |-> Cardinality(valid),
         invalid_count |-> total_count - Cardinality(valid),
         null_count |-> Cardinality(nulls),
         total_count |-> total_count,
         valid_percentage |-> IF total_count > 0
                              THEN [n |-> Cardinality(valid) * 100, d |-> total_count]
                              ELSE [n |-> 0, d |-> 1]]

\* the counts validate_dataframe reports for one column
Counts(func, col) ==
    LET rows == 1..Len(col.cells)
        valid == {i \in rows : ~IsNa(col.cells[i]) /\ CallValidator(func, col.cells[i])}
        nulls == {i \in rows : IsNa(col.cells[i])}
        invalid == {i \in rows : i \notin valid /\ i \notin nulls}
        total_count == Len(col.cells)
    IN  [valid_count |-> Cardinality(valid),
         invalid_count |-> Cardinality(invalid),
         null_count |-> Cardinality(nulls),
         total_count |-> total_count,
         \* (valid_count / total_count) * 100 as the exact fraction n / d
         valid_percentage |-> IF total_count > 0
                              THEN [n |-> Cardinality(valid) * 100, d |-> total_count]
                              ELSE [n |-> 0, d |-> 1]]

validate_dataframe(frame) ==
    LET deduped == DropDuplicated(frame)
        ruled == {c \in 1..Len(deduped) :
                    FirstRule(validation_rules, Lower(deduped[c].name)) # 0}
        ColumnOf(name) == deduped[CHOOSE c \in ruled : deduped[c].name = name]
    IN  [name \in {deduped[c].name : c \in ruled} |->
            Counts(validation_rules[FirstRule(validation_rules, Lower(name))].func,
                   ColumnOf(name))]

(***************************************************************************)
(* Inputs of the header-mapping runs                                       *)
(***************************************************************************)
MaxHeaders == 1     \* longest list of input headers
MaxCanon   == 2     \* longest list of canonical fields

\* headers: equal to a field up to case, an alias of postal_code, a typo, a
\* header sharing two of three tokens with two fields, an unrelated one
HeaderPool == {<<"E","m","a","i","l">>, <<"z","i","p"," ","c","o","d","e">>, <<"e","m","a","l">>, <<"z","i","p"," ","c","o","d","e"," ","n","o">>, <<"x","y","z","1","2","3">>}

\* fields: 'zip code' and 'Zip Code' have the same normal form, 'code zip' has
\* the same tokens in another order
CanonPool == {<<"e","m","a","i","l">>, <<"p","o","s","t","a","l","_","c","o","d","e">>, <<"c","o","d","e"," ","z","i","p">>, <<"z","i","p"," ","c","o","d","e">>, <<"Z","i","p"," ","C","o","d","e">>}

\* promoted header aliases as the store holds them (raw header -> field)
AliasPool == {
    <<>>,
    [h \in {<<"E","m","a","i","l">>} |-> <<"p","h","o","n","e">>],
    [h \in {<<"E","m","a","i","l">>, <<"z","i","p"," ","c","o","d","e">>} |-> IF h = <<"E","m","a","i","l">> THEN <<"p","h","o","n","e">> ELSE <<"t","a","x","_","i","d">>] }

SeqsUpTo(S, n) == UNION {[1..k -> S] : k \in 0..n}

Injective(q) == \A i, j \in 1..Len(q) : q[i] = q[j] => i = j

MapInit ==
    /\ input_headers \in SeqsUpTo(HeaderPool, MaxHeaders) \ {<<>>}
    /\ canonical_fields \in {q \in SeqsUpTo(CanonPool, MaxCanon) : Injective(q)}
    /\ promoted_aliases \in AliasPool
    /\ suggestions = <<>>
    /\ map_pc = "start"
    /\ norm_in = <<>>
    /\ norm_out = <<>>
    /\ norm_pc = "idle"
    /\ clean_key = <<>>
    /\ cell_in = <<>>
    /\ cell_out = <<>>
    /\ cell_again = <<>>
    /\ cell_valid = FALSE
    /\ clean_pc = "idle"
    /\ df = <<>>
    /\ cleaned_df = <<>>
    /\ validation_results = <<>>
    /\ df_pc = "idle"
    /\ df_uploaded = <<>>
    /\ final_mapping = <<>>
    /\ promoted_rules = <<>>
    /\ ss_original_mapped_df = <<>>
    /\ ss_cleaned_df = <<>>
    /\ ss_validation_results = <<>>
    /\ app_pc = "idle"
    /\ fix_raw = <<>>
    /\ fix_df = <<>>
    /\ fix_validation = <<>>
    /\ suggested_fixes = <<>>
    /\ fix_pc = "idle"
    /\ store_file = <<>>
    /\ loaded = <<>>
    /\ fixes_data = <<>>
    /\ file_before = <<>>
    /\ save_ok = FALSE
    /\ store_pc = "idle"
    /\ filename = <<>>
    /\ session_keys = {}
    /\ ss_suggested_fixes = <<>>
    /\ ss_applied_fixes = <<>>
    /\ ss_final_df = <<>>
    /\ ss_sources = <<>>
    /\ report = <<>>
    /\ uploads = 0
    /\ sess_pc = "idle"
    /\ schema_file = <<>>
    /\ canonical_out = <<>>
    /\ schema_pc = "idle"

\* suggest_mappings(input_headers, canonical_fields, promoted_aliases)
SuggestMappings ==
    /\ map_pc = "start"
    /\ suggestions' = SuggestMappingsResult(input_headers, canonical_fields,
                                            promoted_aliases)
    /\ map_pc' = "done"
    /\ UNCHANGED <<input_headers, canonical_fields, promoted_aliases,
                   normVars, cleanVars, dfVars, appVars, fixVars, storeVars, sessVars, schemaVars>>

SpecMap == MapInit /\ [][SuggestMappings]_vars

(***************************************************************************)
(* _normalize_header applied to one header                                 *)
(***************************************************************************)
MaxHeaderLen == 4   \* longest header of the exhaustive normalization runs

NormAlphabet == {"a", "B", "1", "_", "-", " "}

NormInit ==
    /\ norm_in \in SeqsUpTo(NormAlphabet, MaxHeaderLen)
                      \cup {<<"M","i","x","e","d","_","C","a","s","e","-","H","e","a","d","e","r">>, <<"C","o","m","p","a","n","y"," ","N","a","m","e","!">>, <<"V","A","T","#","1","2","3">>}
    /\ norm_out = <<>>
    /\ norm_pc = "start"
    /\ input_headers = <<>>
    /\ canonical_fields = <<>>
    /\ promoted_aliases = <<>>
    /\ suggestions = <<>>
    /\ map_pc = "idle"
    /\ clean_key = <<>>
    /\ cell_in = <<>>
    /\ cell_out = <<>>
    /\ cell_again = <<>>
    /\ cell_valid = FALSE
    /\ clean_pc = "idle"
    /\ df = <<>>
    /\ cleaned_df = <<>>
    /\ validation_results = <<>>
    /\ df_pc = "idle"
    /\ df_uploaded = <<>>
    /\ final_mapping = <<>>
    /\ promoted_rules = <<>>
    /\ ss_original_mapped_df = <<>>
    /\ ss_cleaned_df = <<>>
    /\ ss_validation_results = <<>>
    /\ app_pc = "idle"
    /\ fix_raw = <<>>
    /\ fix_df = <<>>
    /\ fix_validation = <<>>
    /\ suggested_fixes = <<>>
    /\ fix_pc = "idle"
    /\ store_file = <<>>
    /\ loaded = <<>>
    /\ fixes_data = <<>>
    /\ file_before = <<>>
    /\ save_ok = FALSE
    /\ store_pc = "idle"
    /\ filename = <<>>
    /\ session_keys = {}
    /\ ss_suggested_fixes = <<>>
    /\ ss_applied_fixes = <<>>
    /\ ss_final_df = <<>>
    /\ ss_sources = <<>>
    /\ report = <<>>
    /\ uploads = 0
    /\ sess_pc = "idle"
    /\ schema_file = <<>>
    /\ canonical_out = <<>>
    /\ schema_pc = "idle"

NormalizeHeader ==
    /\ norm_pc = "start"
    /\ norm_out' = _normalize_header(norm_in)
    /\ norm_pc' = "done"
    /\ UNCHANGED <<norm_in, mapVars, cleanVars, dfVars, appVars, fixVars, storeVars, sessVars, schemaVars>>

SpecNorm == NormInit /\ [][NormalizeHeader]_vars

(***************************************************************************)
(* One rule key: its cleaning function applied to a cell, applied again to *)
(* the result, and its validation function applied to the cleaned cell     *)
(***************************************************************************)
MaxCellLen == 3     \* longest cell text of the exhaustive part of the inputs

CellAlphabet == {"a", "B", "1", " ", "-", ".", "@"}

Strs(S) == {Str(s) : s \in S}

\* cell values seen under each cleaning function
SampleCells(func) ==
    CASE func = "_clean_phone" ->
            Strs({<<"9","8","7","6","5","4","3","2","1","0">>, <<"0","9","1","-","9","8","7","6","-","5","4","3","2","1","0">>, <<"+","9","1"," ","9","8","7","6","5"," ","4","3","2","1","0">>,
                  <<"9","1","9","8","7","6","5","4","3","2","1","0">>, <<"0","9","8","7","6","5","4","3","2","1","0">>, <<"1","9","8","7","6","5","4","3","2","1","0">>,
                  <<"+","1"," ","5","5","5"," ","1","2","3"," ","4","5","6","7">>, <<"9","8","7","6","5">>, <<"n","o","t"," ","a"," ","p","h","o","n","e">>})
            \cup {Num(<<"9","8","7","6","5","4","3","2","1","0",".","0">>)}
      [] func = "_clean_email" ->
            Strs({<<" ","J","o","h","n","@","G","a","m","i","l",".","c","o","m"," ">>, <<"a"," ","b","@","y","a","h","o",".","c","o","m">>, <<"n","o","-","a","t">>,
                  <<"a","@","b","@","g","a","m","i","l",".","c","o","m">>, <<"u","s","e","r","@","e","x","a","m","p","l","e",".","c","o","m">>})
      [] func = "_clean_tax_id" -> Strs({<<" ","a","b","-","1","2"," ","c","d","_","9"," ">>, <<"G","S","T","I","N"," ","1","2","3","4","5","6","7">>})
      [] func = "_clean_postal_code" -> Strs({<<" ","5","6","0"," ","0","0","1"," ">>, <<"s","w","1","a","-","1","a","a">>})
      [] func = "_clean_currency" ->
            Strs({<<"$","1",",","2","3","4",".","5","0">>, <<"0",".","0","0","0","0","1">>, <<"1","0","0","0","0","0","0","0","0","0","0","0","0","0","0","0","0">>, <<"i","n","v","a","l","i","d">>,
                  <<"-","5">>, <<"1",".","5","M">>})
            \cup {Num(<<"1","2","3","4",".","5">>), Num(<<"1","e","-","0","5">>), Num(<<"1","e","+","1","6">>)}
      [] func = "_clean_number" ->
            Strs({<<"1",",","0","0","0">>, <<"1","2"," ","p","e","o","p","l","e">>, <<"a","b","c">>, <<"0",".","0","0","0","0","1">>}) \cup {Num(<<"1","0","0",".","0">>)}
      [] func = "_clean_date" ->
            Strs({<<"2","0","2","3","-","0","1","-","1","5">>, <<"0","1","/","1","5","/","2","0","2","3">>, <<"J","a","n"," ","1","5",","," ","2","0","2","3">>, <<"1","5","-","0","1","-","2","0","2","3">>,
                  <<"1","3","/","1","4","/","2","0","2","3">>, <<"2","0","2","3","-","0","2","-","3","0">>, <<"n","o","t"," ","a"," ","d","a","t","e">>, <<"U","n","k","n","o","w","n">>})
      [] func = "_clean_website" ->
            Strs({<<"E","x","a","m","p","l","e",".","c","o","m">>, <<" ","H","T","T","P",":","/","/","X",".","o","r","g"," ">>, <<"h","t","t","p","s",":","/","/","a",".","b">>, <<"f","t","p",":","/","/","x">>})
      [] func = "_clean_text" ->
            Strs({<<" "," ","a","c","m","e"," "," "," ","c","o","r","p"," ">>, <<"o","'","n","e","i","l"," ","l","t","d">>, <<"3","r","d"," ","f","l","o","o","r">>, <<"N","E","W"," "," ","y","o","r","k">>})
      [] func = "_clean_currency_code" ->
            Strs({<<" ","r","s"," ">>, <<"₹">>, <<"$">>, <<"u","s","d">>, <<"€">>, <<"g","b","p">>})

\* every short text as well, except for dates, where the parser is modelled on
\* the sample shapes only
CellPool(func) ==
    SampleCells(func) \cup {NaN, PyNone}
    \cup (IF func = "_clean_date" THEN {} ELSE Strs(SeqsUpTo(CellAlphabet, MaxCellLen)))

CleanInit ==
    /\ clean_key \in {cleaning_rules[i].key : i \in 1..Len(cleaning_rules)}
    /\ cell_in \in CellPool(RuleUnder(cleaning_rules, clean_key))
    /\ cell_out = PyNone
    /\ cell_again = PyNone
    /\ cell_valid = FALSE
    /\ clean_pc = "start"
    /\ input_headers = <<>>
    /\ canonical_fields = <<>>
    /\ promoted_aliases = <<>>
    /\ suggestions = <<>>
    /\ map_pc = "idle"
    /\ norm_in = <<>>
    /\ norm_out = <<>>
    /\ norm_pc = "idle"
    /\ df = <<>>
    /\ cleaned_df = <<>>
    /\ validation_results = <<>>
    /\ df_pc = "idle"
    /\ df_uploaded = <<>>
    /\ final_mapping = <<>>
    /\ promoted_rules = <<>>
    /\ ss_original_mapped_df = <<>>
    /\ ss_cleaned_df = <<>>
    /\ ss_validation_results = <<>>
    /\ app_pc = "idle"
    /\ fix_raw = <<>>
    /\ fix_df = <<>>
    /\ fix_validation = <<>>
    /\ suggested_fixes = <<>>
    /\ fix_pc = "idle"
    /\ store_file = <<>>
    /\ loaded = <<>>
    /\ fixes_data = <<>>
    /\ file_before = <<>>
    /\ save_ok = FALSE
    /\ store_pc = "idle"
    /\ filename = <<>>
    /\ session_keys = {}
    /\ ss_suggested_fixes = <<>>
    /\ ss_applied_fixes = <<>>
    /\ ss_final_df = <<>>
    /\ ss_sources = <<>>
    /\ report = <<>>
    /\ uploads = 0
    /\ sess_pc = "idle"
    /\ schema_file = <<>>
    /\ canonical_out = <<>>
    /\ schema_pc = "idle"

\* cleaning_rules[clean_key](cell_in)
CleanCell ==
    /\ clean_pc = "start"
    /\ cell_out' = CallCleaner(RuleUnder(cleaning_rules, clean_key), cell_in)
    /\ clean_pc' = "cleaned"
    /\ UNCHANGED <<clean_key, cell_in, cell_again, cell_valid, mapVars, normVars, dfVars, appVars, fixVars, storeVars, sessVars, schemaVars>>

\* cleaning_rules[clean_key](cell_out)
CleanAgain ==
    /\ clean_pc = "cleaned"
    /\ cell_again' = CallCleaner(RuleUnder(cleaning_rules, clean_key), cell_out)
    /\ clean_pc' = "recleaned"
    /\ UNCHANGED <<clean_key, cell_in, cell_out, cell_valid, mapVars, normVars, dfVars, appVars, fixVars, storeVars, sessVars, schemaVars>>

\* validation_rules[clean_key](cell_out)
ValidateCell ==
    /\ clean_pc = "recleaned"
    /\ cell_valid' = CallValidator(RuleUnder(validation_rules, clean_key), cell_out)
    /\ clean_pc' = "done"
    /\ UNCHANGED <<clean_key, cell_in, cell_out, cell_again, mapVars, normVars, dfVars, appVars, fixVars, storeVars, sessVars, schemaVars>>

SpecClean == CleanInit /\ [][CleanCell \/ CleanAgain \/ ValidateCell]_vars

(***************************************************************************)
(* clean_dataframe, then validate_dataframe on the cleaned dataset (the    *)
(* order of handle_data_cleaning, app.py)                                  *)
(***************************************************************************)
MaxRows == 2        \* rows of a dataset

\* the column names of a dataset with the cell values seen under each name
FramePool == {
    <<[name |-> <<"p","h","o","n","e","_","e","m","a","i","l">>,
       pool |-> {NaN, Str(<<"9","8","7","6","5","4","3","2","1","0">>), Str(<<"a","@","b",".","c","o">>)}],
      [name |-> <<"n","o","t","e","s">>,
       pool |-> {NaN, PyNone, Str(<<" ","x"," ">>)}]>>,
    <<[name |-> <<"E","m","a","i","l","_","A","d","d","r","e","s","s">>,
       pool |-> {NaN, Str(<<" ","A","@","G","a","m","i","l",".","c","o","m"," ">>), Str(<<"1","2"," ","m","a","i","n"," ","s","t">>)}],
      [name |-> <<"r","e","v","e","n","u","e">>,
       pool |-> {NaN, Str(<<"i","n","v","a","l","i","d">>), Str(<<"$","1",",","2","3","4",".","5","0">>)}]>>,
    <<[name |-> <<"a","n","n","u","a","l","_","r","e","v","e","n","u","e">>,
       pool |-> {NaN, Num(<<"1","2","3","4",".","5">>), Num(<<"1","e","-","0","5">>)}],
      [name |-> <<"e","m","p","l","o","y","e","e","s">>,
       pool |-> {PyNone, Str(<<"1","2"," ","p","e","o","p","l","e">>), Str(<<"a","b","c">>)}]>>,
    <<[name |-> <<"C","i","t","y","_","S","t","a","t","e">>,
       pool |-> {PyNone, Str(<<"n","e","w"," "," ","y","o","r","k">>)}],
      [name |-> <<"s","c","o","r","e">>,
       pool |-> {NaN, Num(<<"1",".","5">>)}]>>,
    <<[name |-> <<"p","h","o","n","e">>,
       pool |-> {NaN, Str(<<"9","8","7","6","5">>), Str(<<"9","1","9","8","7","6","5","4","3","2","1","0">>)}],
      [name |-> <<"p","h","o","n","e">>,
       pool |-> {NaN, Str(<<"1","2","3">>)}]>> }

\* the dtype pandas gives a column read from a file or built from a list
InputColumn(name, cells) ==
    Column(name,
           IF \A i \in 1..Len(cells) : cells[i].t \in {"num", "nan"}
           THEN "float64" ELSE "object",
           cells)

DfInit ==
    /\ \E shape \in FramePool :
        \E cells \in [1..Len(shape) -> UNION {[1..MaxRows -> shape[c].pool] : c \in 1..Len(shape)}] :
            /\ \A c \in 1..Len(shape) : \A r \in 1..MaxRows : cells[c][r] \in shape[c].pool
            /\ df = [c \in 1..Len(shape) |-> InputColumn(shape[c].name, cells[c])]
    /\ cleaned_df = <<>>
    /\ validation_results = <<>>
    /\ df_pc = "start"
    /\ input_headers = <<>>
    /\ canonical_fields = <<>>
    /\ promoted_aliases = <<>>
    /\ suggestions = <<>>
    /\ map_pc = "idle"
    /\ norm_in = <<>>
    /\ norm_out = <<>>
    /\ norm_pc = "idle"
    /\ clean_key = <<>>
    /\ cell_in = <<>>
    /\ cell_out = <<>>
    /\ cell_again = <<>>
    /\ cell_valid = FALSE
    /\ clean_pc = "idle"
    /\ df_uploaded = <<>>
    /\ final_mapping = <<>>
    /\ promoted_rules = <<>>
    /\ ss_original_mapped_df = <<>>
    /\ ss_cleaned_df = <<>>
    /\ ss_validation_results = <<>>
    /\ app_pc = "idle"
    /\ fix_raw = <<>>
    /\ fix_df = <<>>
    /\ fix_validation = <<>>
    /\ suggested_fixes = <<>>
    /\ fix_pc = "idle"
    /\ store_file = <<>>
    /\ loaded = <<>>
    /\ fixes_data = <<>>
    /\ file_before = <<>>
    /\ save_ok = FALSE
    /\ store_pc = "idle"
    /\ filename = <<>>
    /\ session_keys = {}
    /\ ss_suggested_fixes = <<>>
    /\ ss_applied_fixes = <<>>
    /\ ss_final_df = <<>>
    /\ ss_sources = <<>>
    /\ report = <<>>
    /\ uploads = 0
    /\ sess_pc = "idle"
    /\ schema_file = <<>>
    /\ canonical_out = <<>>
    /\ schema_pc = "idle"

\* cleaned_df = cleaner.clean_dataframe(df)
CleanDataframe ==
    /\ df_pc = "start"
    /\ cleaned_df' = clean_dataframe(df)
    /\ df_pc' = "cleaned"
    /\ UNCHANGED <<df, validation_results, mapVars, normVars, cleanVars, appVars, fixVars, storeVars, sessVars, schemaVars>>

\* validation_results = cleaner.validate_dataframe(cleaned_df)
ValidateDataframe ==
    /\ df_pc = "cleaned"
    /\ validation_results' = validate_dataframe(cleaned_df)
    /\ df_pc' = "validated"
    /\ UNCHANGED <<df, cleaned_df, mapVars, normVars, cleanVars, appVars, fixVars, storeVars, sessVars, schemaVars>>

\* validation_results = cleaner.validate_dataframe(df) on the dataset as it
\* came in (test_validation_results)
ValidateInput ==
    /\ df_pc = "start"
    /\ validation_results' = validate_dataframe(df)
    /\ df_pc' = "validated_input"
    /\ UNCHANGED <<df, cleaned_df, mapVars, normVars, cleanVars, appVars, fixVars, storeVars, sessVars, schemaVars>>

\* cleaner.clean_dataframe(cleaned_df): the cleaned dataset cleaned again
CleanDataframeAgain ==
    /\ df_pc = "cleaned"
    /\ cleaned_df' = clean_dataframe(cleaned_df)
    /\ df_pc' = "cleaned_again"
    /\ UNCHANGED <<df, validation_results, mapVars, normVars, cleanVars, appVars, fixVars, storeVars, sessVars, schemaVars>>

SpecDF ==
    DfInit /\ [][CleanDataframe \/ ValidateDataframe \/ ValidateInput
                 \/ CleanDataframeAgain]_vars


(***************************************************************************)
(* The Streamlit session (app.py): Confirm Mapping, then Run Data Cleaning *)
(* and Validation                                                          *)
(***************************************************************************)
SKIP == <<"S","K","I","P">>

\* final_mapping is a dict keyed by the input headers in the order of
\* df_uploaded.columns: the sequence of its items
MappedFields(mapping) == {mapping[i].field : i \in 1..Len(mapping)}

\* dupes = [col for col, mapped in final_mapping.items() if mapped == target_field]
Dupes(mapping, target_field) ==
    LET MapsToTarget(item) == item.field = target_field
        items == SelectSeq(mapping, MapsToTarget)
    IN  [k \in 1..Len(items) |-> items[k].header]

ColumnNamed(frame, name) ==
    frame[CHOOSE c \in 1..Len(frame) : frame[c].name = name]

\* next((x for x in row if pd.notna(x)), None), with the last non-null cell
\* in place of the first
LastNotNa(row) ==
    IF \A k \in 1..Len(row) : IsNa(row[k]) THEN PyNone
    ELSE row[CHOOSE k \in 1..Len(row) :
                /\ ~IsNa(row[k])
                /\ \A j \in (k + 1)..Len(row) : IsNa(row[j])]

\* next((x for x in row if pd.notna(x)), None)
FirstNotNa(row) ==
    IF \A k \in 1..Len(row) : IsNa(row[k]) THEN PyNone
    ELSE row[CHOOSE k \in 1..Len(row) :
                /\ ~IsNa(row[k])
                /\ \A j \in 1..(k - 1) : IsNa(row[j])]

\* a float64 column stores every null as NaN
AsDtype(dtype, cells) ==
    [r \in 1..Len(cells) |->
        IF dtype = "float64" /\ IsNa(cells[r]) THEN NaN ELSE cells[r]]

\* df_uploaded[dupes].apply(lambda row: ..., axis=1)
MergeDupes(uploaded, dupes, target_field) ==
    LET rows == IF Len(uploaded) = 0 THEN 0 ELSE Len(uploaded[1].cells)
        cells == [r \in 1..rows |->
                    FirstNotNa([k \in 1..Len(dupes) |->
                                    ColumnNamed(uploaded, dupes[k]).cells[r]])]
        dtype == InferDtype(cells)
    IN  Column(target_field, dtype, AsDtype(dtype, cells))

\* the column names of df_uploaded.rename(columns=final_mapping)
RenamedName(mapping, name) ==
    IF \E i \in 1..Len(mapping) : mapping[i].header = name
    THEN mapping[CHOOSE i \in 1..Len(mapping) : mapping[i].header = name].field
    ELSE name

\* mapped_df[target_field] is one column only when one column of mapped_df
\* has that name; with several it is a DataFrame, and assigning it to
\* merged_df[target_field] raises ValueError
Renamed(uploaded, mapping, target_field) ==
    {c \in 1..Len(uploaded) : RenamedName(mapping, uploaded[c].name) = target_field}

Ambiguous(uploaded, mapping, target_field) ==
    /\ Len(Dupes(mapping, target_field)) = 1
    /\ Cardinality(Renamed(uploaded, mapping, target_field)) > 1

HasColumn(frame, name) == \E c \in 1..Len(frame) : frame[c].name = name

\* df_uploaded[dupes] and mapped_df[target_field] raise KeyError for a
\* column the uploaded dataset does not have
Missing(uploaded, mapping, target_field) ==
    LET dupes == Dupes(mapping, target_field)
    IN  IF Len(dupes) > 1
        THEN \E k \in 1..Len(dupes) : ~HasColumn(uploaded, dupes[k])
        ELSE Renamed(uploaded, mapping, target_field) = {}

\* the except branch of handle_data_cleaning is taken
CleaningFails(uploaded, mapping) ==
    \E t \in MappedFields(mapping) :
        Ambiguous(uploaded, mapping, t) \/ Missing(uploaded, mapping, t)

\* the column handle_data_cleaning builds for one target field
MergedColumn(uploaded, mapping, target_field) ==
    LET dupes == Dupes(mapping, target_field)
    IN  IF Len(dupes) > 1 THEN MergeDupes(uploaded, dupes, target_field)
        ELSE [uploaded[CHOOSE c \in Renamed(uploaded, mapping, target_field) : TRUE]
                EXCEPT !.name = target_field]

\* a Python dict is the sequence of its items in insertion order
Dict(items) == [t |-> "dict", v |-> items]
List(items) == [t |-> "list", v |-> items]
Item(key, val) == [key |-> key, val |-> val]
Unserializable == [t |-> "object", v |-> <<>>]

Keys(d) == {d.v[i].key : i \in 1..Len(d.v)}

\* d[key]
At(d, key) == d.v[CHOOSE i \in 1..Len(d.v) : d.v[i].key = key].val

\* rule.get(key)
Get(rule, key) == IF key \in Keys(rule) THEN At(rule, key) ELSE PyNone

\* Python == between a cell and the 'original' of a rule
PyEq(a, b) ==
    /\ a.t = b.t
    /\ a.t \in {"str", "num"}
    /\ \/ a.v = b.v
       \/ a.t = "num" /\ {a.v, b.v} = {<<"0",".","0">>, <<"-","0",".","0">>}

\* a step 4 that leaves the cleaned dataset as it is
ApplyNoRule(frame, rule) == frame

\* mask = cleaned_df[field] == original; cleaned_df.loc[mask, field] = replacement
ApplyRule(frame, rule) ==
    [c \in 1..Len(frame) |->
        IF Str(frame[c].name) # Get(rule, <<"f","i","e","l","d">>) THEN frame[c]
        ELSE LET cells == [r \in 1..Len(frame[c].cells) |->
                             IF PyEq(frame[c].cells[r], Get(rule, <<"o","r","i","g","i","n","a","l">>))
                             THEN Get(rule, <<"r","e","p","l","a","c","e","m","e","n","t">>) ELSE frame[c].cells[r]]
             IN  Column(frame[c].name,
                        IF cells = frame[c].cells THEN frame[c].dtype
                        ELSE InferDtype(cells),
                        cells)]

\* for rule in promoted_fixes['fix_rules']: ...
RECURSIVE ApplyRules(_, _)
ApplyRules(frame, rules) ==
    IF rules = <<>> THEN frame
    ELSE ApplyRules(ApplyRule(frame, Head(rules)), Tail(rules))

Orderings(S) ==
    {order \in [1..Cardinality(S) -> S] :
        \A i, j \in 1..Cardinality(S) : order[i] = order[j] => i = j}

MaxUploadRows == 2      \* rows of an uploaded dataset

\* uploaded datasets: two text columns and a numeric one, two numeric
\* columns and a column named like a canonical field
UploadPool == {
    <<[name |-> <<"B","i","l","l","i","n","g"," ","E","m","a","i","l">>,
       pool |-> {NaN, Str(<<"A","@","g","a","m","i","l",".","c","o","m">>)}],
      [name |-> <<"C","o","n","t","a","c","t"," ","E","m","a","i","l">>,
       pool |-> {NaN, Str(<<"x","@","y",".","c","o","m">>)}],
      [name |-> <<"S","a","l","e","s">>,
       pool |-> {Num(<<"1",".","5">>)}]>>,
    <<[name |-> <<"T","u","r","n","o","v","e","r">>,
       pool |-> {NaN, Num(<<"2",".","0">>)}],
      [name |-> <<"S","a","l","e","s">>,
       pool |-> {NaN, Num(<<"1",".","5">>)}],
      [name |-> <<"r","e","v","e","n","u","e">>,
       pool |-> {Str(<<"7">>)}]>> }

\* the canonical schema offered in the select boxes
canonical_schema == <<<<"e","m","a","i","l">>, <<"r","e","v","e","n","u","e">>>>

\* the fix_rules of the store when the handler loads it: none, one rule
\* promoted from an applied fix, two rules added through add_fix_rule of
\* which the first replaces what the second puts in
RulePool == {
    <<>>,
    <<Dict(<<Item(<<"f","i","e","l","d">>, Str(<<"e","m","a","i","l">>)), Item(<<"r","u","l","e">>, Str(<<"e","m","a","i","l","_","f","o","r","m","a","t">>)),
             Item(<<"o","r","i","g","i","n","a","l">>, Str(<<"x","@","y",".","c","o","m">>)),
             Item(<<"r","e","p","l","a","c","e","m","e","n","t">>, Str(<<"x","@","y",".","o","r","g">>))>>)>>,
    <<Dict(<<Item(<<"f","i","e","l","d">>, Str(<<"e","m","a","i","l">>)), Item(<<"r","u","l","e","_","t","y","p","e">>, Str(<<"d","o","m","a","i","n">>)),
             Item(<<"o","r","i","g","i","n","a","l">>, Str(<<"x","@","y",".","o","r","g">>)),
             Item(<<"r","e","p","l","a","c","e","m","e","n","t">>, Str(<<"x","@","y",".","n","e","t">>)), Item(<<"p","a","r","a","m","s">>, Dict(<<>>))>>),
      Dict(<<Item(<<"f","i","e","l","d">>, Str(<<"e","m","a","i","l">>)), Item(<<"r","u","l","e","_","t","y","p","e">>, Str(<<"d","o","m","a","i","n">>)),
             Item(<<"o","r","i","g","i","n","a","l">>, Str(<<"x","@","y",".","c","o","m">>)),
             Item(<<"r","e","p","l","a","c","e","m","e","n","t">>, Str(<<"x","@","y",".","o","r","g">>)), Item(<<"p","a","r","a","m","s">>, Dict(<<>>))>>)>> }

AppInit ==
    /\ \E shape \in UploadPool :
        \E cells \in [1..Len(shape) -> UNION {[1..MaxUploadRows -> shape[c].pool] : c \in 1..Len(shape)}] :
            /\ \A c \in 1..Len(shape) : \A r \in 1..MaxUploadRows : cells[c][r] \in shape[c].pool
            /\ df_uploaded = [c \in 1..Len(shape) |-> InputColumn(shape[c].name, cells[c])]
    /\ promoted_rules \in RulePool
    /\ final_mapping = <<>>
    /\ ss_original_mapped_df = <<>>
    /\ ss_cleaned_df = <<>>
    /\ ss_validation_results = <<>>
    /\ app_pc = "uploaded"
    /\ input_headers = <<>>
    /\ canonical_fields = <<>>
    /\ promoted_aliases = <<>>
    /\ suggestions = <<>>
    /\ map_pc = "idle"
    /\ norm_in = <<>>
    /\ norm_out = <<>>
    /\ norm_pc = "idle"
    /\ clean_key = <<>>
    /\ cell_in = <<>>
    /\ cell_out = <<>>
    /\ cell_again = <<>>
    /\ cell_valid = FALSE
    /\ clean_pc = "idle"
    /\ df = <<>>
    /\ cleaned_df = <<>>
    /\ validation_results = <<>>
    /\ df_pc = "idle"
    /\ fix_raw = <<>>
    /\ fix_df = <<>>
    /\ fix_validation = <<>>
    /\ suggested_fixes = <<>>
    /\ fix_pc = "idle"
    /\ store_file = <<>>
    /\ loaded = <<>>
    /\ fixes_data = <<>>
    /\ file_before = <<>>
    /\ save_ok = FALSE
    /\ store_pc = "idle"
    /\ filename = <<>>
    /\ session_keys = {}
    /\ ss_suggested_fixes = <<>>
    /\ ss_applied_fixes = <<>>
    /\ ss_final_df = <<>>
    /\ ss_sources = <<>>
    /\ report = <<>>
    /\ uploads = 0
    /\ sess_pc = "idle"
    /\ schema_file = <<>>
    /\ canonical_out = <<>>
    /\ schema_pc = "idle"

\* final_mapping = {header: field for the select boxes not left on SKIP}
SelectedMapping(uploaded, selected) ==
    LET kept == SelectSeq([c \in 1..Len(uploaded) |-> c],
                          LAMBDA c : selected[c] # SKIP)
    IN  [i \in 1..Len(kept) |->
            [header |-> uploaded[kept[i]].name, field |-> selected[kept[i]]]]

Selections(uploaded) == [1..Len(uploaded) -> {SKIP} \cup Range(canonical_schema)]

\* steps 2 to 5 of handle_data_cleaning, the target fields taken in the
\* given order
DataCleaning(uploaded, mapping, rules, order) ==
    LET merged_df == [i \in 1..Len(order) |-> MergedColumn(uploaded, mapping, order[i])]
        cleaned == ApplyRules(clean_dataframe(merged_df), rules)
    IN  [original_mapped_df |-> merged_df,
         cleaned_df |-> cleaned,
         validation_results |-> validate_dataframe(cleaned)]

\* handle_header_mapping: one select box per input header, then the Confirm
\* Mapping button
ConfirmMapping ==
    /\ app_pc = "uploaded"
    /\ \E selected \in Selections(df_uploaded) :
        final_mapping' = SelectedMapping(df_uploaded, selected)
    /\ app_pc' = "mapped"
    /\ UNCHANGED <<df_uploaded, promoted_rules, ss_original_mapped_df, ss_cleaned_df,
                   ss_validation_results, mapVars, normVars, cleanVars, dfVars, fixVars, storeVars, sessVars, schemaVars>>

\* handle_data_cleaning after the Run button.  set(final_mapping.values())
\* is iterated in hash order, so the columns of merged_df come in any order.
RunDataCleaning ==
    /\ app_pc \in {"mapped", "cleaned", "failed"}
    /\ IF CleaningFails(df_uploaded, final_mapping)
       THEN \* the except branch: st.error and return
            /\ app_pc' = "failed"
            /\ UNCHANGED <<ss_original_mapped_df, ss_cleaned_df, ss_validation_results, fixVars, storeVars, sessVars, schemaVars>>
       ELSE \E order \in Orderings(MappedFields(final_mapping)) :
            LET done == DataCleaning(df_uploaded, final_mapping, promoted_rules, order)
            IN  /\ ss_original_mapped_df' = done.original_mapped_df
                /\ ss_cleaned_df' = done.cleaned_df
                /\ ss_validation_results' = done.validation_results
                /\ app_pc' = "cleaned"
    /\ UNCHANGED <<df_uploaded, final_mapping, promoted_rules,
                   mapVars, normVars, cleanVars, dfVars, fixVars, storeVars, sessVars, schemaVars>>

SpecApp == AppInit /\ [][ConfirmMapping \/ RunDataCleaning]_vars


(***************************************************************************)
(* FixSuggester (fix_suggester.py)                                         *)
(***************************************************************************)
common_domain_fixes == <<
    [key |-> <<"g","a","m","i","l",".","c","o","m">>,   fix |-> <<"g","m","a","i","l",".","c","o","m">>],
    [key |-> <<"g","m","i","a","l",".","c","o","m">>,   fix |-> <<"g","m","a","i","l",".","c","o","m">>],
    [key |-> <<"g","m","a","i",".","c","o","m">>,    fix |-> <<"g","m","a","i","l",".","c","o","m">>],
    [key |-> <<"y","a","h","o","o","o",".","c","o","m">>,  fix |-> <<"y","a","h","o","o",".","c","o","m">>],
    [key |-> <<"y","a","h","o",".","c","o","m">>,    fix |-> <<"y","a","h","o","o",".","c","o","m">>],
    [key |-> <<"h","o","t","m","i","a","l",".","c","o","m">>, fix |-> <<"h","o","t","m","a","i","l",".","c","o","m">>],
    [key |-> <<"h","o","t","m","i","l",".","c","o","m">>,  fix |-> <<"h","o","t","m","a","i","l",".","c","o","m">>] >>

common_domains == <<<<"g","m","a","i","l",".","c","o","m">>, <<"y","a","h","o","o",".","c","o","m">>, <<"h","o","t","m","a","i","l",".","c","o","m">>, <<"o","u","t","l","o","o","k",".","c","o","m">>>>

\* process.extractOne(domain, common_domains, scorer=fuzz.ratio): the first
\* choice with the highest ratio (no processor)
extractOne(domain, choices) ==
    LET RatioGT(x, y) == x.n * y.d > y.n * x.d
        ratio == SubSeq([j \in 1..Len(choices) |-> FuzzRatio(domain, choices[j])],
                        1, Len(choices))
    IN  CHOOSE k \in 1..Len(choices) :
            /\ \A j \in 1..Len(choices) : ~RatioGT(ratio[j], ratio[k])
            /\ \A j \in 1..(k - 1) : RatioGT(ratio[k], ratio[j])

\* index of the last occurrence of character c in s, 0 when absent
LastIndex(s, c) ==
    IF \E i \in 1..Len(s) : s[i] = c
    THEN CHOOSE i \in 1..Len(s) : s[i] = c /\ \A j \in (i + 1)..Len(s) : s[j] # c
    ELSE 0

_fix_email(email) ==
    LET at == LastIndex(email, "@")
        local == SubSeq(email, 1, at - 1)
        domain == SubSeq(email, at + 1, Len(email))
        best_match == extractOne(domain, common_domains)
        score == FuzzRatio(domain, common_domains[best_match])
    IN  IF at = 0 THEN email
        ELSE IF \E i \in 1..Len(common_domain_fixes) : common_domain_fixes[i].key = domain
        THEN local \o <<"@">> \o Lookup(common_domain_fixes, domain)
        \* best_match[1] > 70, the ratio being 100 * n / d
        ELSE IF score.n * 100 > 70 * score.d
        THEN local \o <<"@">> \o common_domains[best_match]
        ELSE email

_fix_phone(phone) ==
    LET digits_only == SelectSeq(phone, IsDigitChar)
    IN  IF Len(digits_only) = 10
        THEN <<"+","9","1"," ">> \o SubSeq(digits_only, 1, 5) \o <<" ">> \o SubSeq(digits_only, 6, 10)
        ELSE IF Len(digits_only) = 11 /\ digits_only[1] = "0"
        THEN <<"+","9","1"," ">> \o SubSeq(digits_only, 2, 6) \o <<" ">> \o SubSeq(digits_only, 7, 11)
        ELSE IF Len(digits_only) = 12
        THEN <<"+">> \o SubSeq(digits_only, 1, 2) \o <<" ">> \o SubSeq(digits_only, 3, 7)
             \o <<" ">> \o SubSeq(digits_only, 8, 12)
        ELSE phone

\* parser.parse skips the white space around the date
_fix_date(date_str) ==
    LET parsed_date == ParseDate(Strip(date_str))
    IN  IF parsed_date.ok THEN FormatDate(parsed_date) ELSE date_str

_fix_website(url) ==
    LET lowered == Lower(Strip(url))
    IN  IF StartsWith(lowered, <<"h","t","t","p",":","/","/">>) \/ StartsWith(lowered, <<"h","t","t","p","s",":","/","/">>)
        THEN lowered ELSE <<"h","t","t","p","s",":","/","/">> \o lowered

_fix_postal(postal) ==
    LET cleaned == Upper(SelectSeq(postal, IsWordChar))
    IN  IF Len(cleaned) >= 4 THEN cleaned ELSE postal

\* the branch of _suggest_column_fixes a column name takes
ColumnKind(column) ==
    LET column_lower == Lower(column)
    IN  IF Contains(column_lower, <<"e","m","a","i","l">>) THEN "email"
        ELSE IF Contains(column_lower, <<"p","h","o","n","e">>) THEN "phone"
        ELSE IF Contains(column_lower, <<"d","a","t","e">>) THEN "date"
        ELSE IF Contains(column_lower, <<"w","e","b","s","i","t","e">>) THEN "website"
        ELSE IF Contains(column_lower, <<"p","o","s","t","a","l">>) \/ Contains(column_lower, <<"z","i","p">>) THEN "postal"
        ELSE "none"

\* not re.match(pattern, str(value)), and the ValueError of strptime: the
\* patterns are those of the validators of cleaner.py
FailsFormat(kind, value) ==
    CASE kind = "email"   -> ~_validate_email(value)
      [] kind = "phone"   -> ~_validate_phone(value)
      [] kind = "date"    -> ~_validate_date(value)
      [] kind = "website" -> ~_validate_website(value)
      [] kind = "postal"  -> ~_validate_postal_code(value)
      [] OTHER            -> FALSE

\* the str the suggested fix is computed from and compared with
FixInput(kind, value) ==
    CASE kind = "email"   -> Lower(Strip(PyStr(value)))
      [] kind = "website" -> Strip(PyStr(value))
      [] OTHER            -> PyStr(value)

FixOf(kind, s) ==
    CASE kind = "email"   -> _fix_email(s)
      [] kind = "phone"   -> _fix_phone(s)
      [] kind = "date"    -> _fix_date(s)
      [] kind = "website" -> _fix_website(s)
      [] kind = "postal"  -> _fix_postal(s)
      [] OTHER            -> s

IssueType(kind) ==
    CASE kind = "email"   -> <<"e","m","a","i","l","_","f","o","r","m","a","t">>
      [] kind = "phone"   -> <<"p","h","o","n","e","_","f","o","r","m","a","t">>
      [] kind = "date"    -> <<"d","a","t","e","_","f","o","r","m","a","t">>
      [] kind = "website" -> <<"u","r","l","_","f","o","r","m","a","t">>
      [] kind = "postal"  -> <<"p","o","s","t","a","l","_","f","o","r","m","a","t">>
      [] OTHER            -> <<>>

\* 0.8, 0.9 and 0.7 in tenths
ConfidenceTenths(kind) ==
    CASE kind = "email"   -> 8
      [] kind = "phone"   -> 9
      [] kind = "date"    -> 7
      [] kind = "website" -> 8
      [] kind = "postal"  -> 9
      [] OTHER            -> 0

\* a scan that proposes a fix for every non-null cell
ScansEveryCell(kind, value) == ~IsNa(value)

\* pd.notna(value) and not re.match(pattern, str(value))
Scans(kind, value) == ~IsNa(value) /\ FailsFormat(kind, value)

\* an emission test without suggested_fix != the input str
EmitsUnchanged(suggested_fix, input) == suggested_fix # <<>>

\* if suggested_fix and suggested_fix != email_str
Emits(suggested_fix, input) == suggested_fix # <<>> /\ suggested_fix # input

\* the records one _suggest_*_fixes appends; row_index is the 0-based label
\* of the default index
ColumnFixes(col) ==
    LET kind == ColumnKind(col.name)
        hit == SelectSeq([r \in 1..Len(col.cells) |-> r],
                         LAMBDA r : /\ Scans(kind, col.cells[r])
                                    /\ Emits(FixOf(kind, FixInput(kind, col.cells[r])),
                                             FixInput(kind, col.cells[r])))
    IN  [k \in 1..Len(hit) |->
            [field |-> col.name,
             row_index |-> hit[k] - 1,
             original_value |-> col.cells[hit[k]],
             suggested_value |-> Str(FixOf(kind, FixInput(kind, col.cells[hit[k]]))),
             issue_type |-> IssueType(kind),
             confidence |-> ConfidenceTenths(kind)]]

\* validation_info.get('invalid_count', 0) > 0 or any(key in column.lower() ...)
LooksChecked(column, validation) ==
    \/ column \in DOMAIN validation /\ validation[column].invalid_count > 0
    \/ \E key \in {<<"e","m","a","i","l">>, <<"p","h","o","n","e">>, <<"d","a","t","e">>, <<"w","e","b","s","i","t","e">>, <<"p","o","s","t","a","l">>} :
            Contains(Lower(column), key)

RECURSIVE suggest_fixes(_, _)
suggest_fixes(frame, validation) ==
    IF frame = <<>> THEN <<>>
    ELSE LET n == Len(frame)
             front == suggest_fixes(SubSeq(frame, 1, n - 1), validation)
         IN  IF LooksChecked(frame[n].name, validation)
             THEN front \o ColumnFixes(frame[n]) ELSE front

MaxFixRows == 2     \* rows of a dataset given to suggest_fixes

\* the column names of a dataset with the cell values seen under each name
FixPool == {
    <<[name |-> <<"E","m","a","i","l">>,
       pool |-> {NaN, Str(<<"a","@","g","a","m","i","l",".","c","o","m">>), Str(<<"a","@","g","m","a","i","l",",","c","o","m">>), Str(<<" ","A","@","B",".","c","o"," ">>),
                 Str(<<"x"," ","y","@","g","a","m","i","l",".","c","o","m">>), Str(<<"n","o","d","o","m","a","i","n">>)}]>>,
    <<[name |-> <<"p","h","o","n","e","_","e","m","a","i","l">>,
       pool |-> {PyNone, Str(<<"+","9","1"," ","9","8","7","6","5"," ","4","3","2","1","0">>), Str(<<"9","8","7","6","5","4","3","2","1","0">>), Str(<<"a","@","b","@","y","a","h","o",".","c","o","m">>)}]>>,
    <<[name |-> <<"P","h","o","n","e">>,
       pool |-> {NaN, Str(<<"+","9","1"," ","9","8","7","6","5"," ","4","3","2","1","0">>), Str(<<"9","8","7","6","5","4","3","2","1","0">>), Str(<<"1","2","3","4","5">>),
                 Str(<<"0","9","8","7","6","5","4","3","2","1","0">>)}],
      [name |-> <<"n","o","t","e","s">>,
       pool |-> {NaN, Str(<<"9","8","7","6","5","4","3","2","1","0">>)}]>>,
    <<[name |-> <<"m","o","b","i","l","e"," ","p","h","o","n","e">>,
       pool |-> {NaN, Num(<<"9","8","7","6","5","4","3","2","1",".","0">>), Num(<<"1",".","5">>), Num(<<"9","1","9","8","7","6","5","4","3","2","1","0",".","0">>)}]>>,
    <<[name |-> <<"d","a","t","e","_","e","s","t","a","b","l","i","s","h","e","d">>,
       pool |-> {NaN, Str(<<"2","0","2","4","-","0","1","-","0","5">>), Str(<<"0","5","/","0","1","/","2","0","2","4">>), Str(<<"J","a","n"," ","5",","," ","2","0","2","4">>),
                 Str(<<"s","o","o","n">>)}]>>,
    <<[name |-> <<"w","e","b","s","i","t","e">>,
       pool |-> {NaN, Str(<<"h","t","t","p","s",":","/","/","a",".","c","o">>), Str(<<"A",".","c","o">>), Str(<<"h","t","t","p","s",":","/","/">>),
                 Str(<<" ","H","T","T","P",":","/","/","A",".","c","o"," ">>)}]>>,
    <<[name |-> <<"p","o","s","t","a","l","_","c","o","d","e">>,
       pool |-> {NaN, Str(<<"5","6","0","0","0","1">>), Str(<<"5","6","0"," ","0","0","1">>), Str(<<"a","b">>), Str(<<"a","b","-","1">>)}],
      [name |-> <<"z","i","p">>,
       pool |-> {NaN, Str(<<"5","6","0"," ","0","0","1">>)}]>>,
    <<[name |-> <<"p","o","s","t","a","l">>,
       pool |-> {NaN, Num(<<"5","6","0","0","0","1",".","0">>), Num(<<"1","2",".","0">>)}]>> }

\* suggest_fixes gets a dataset as it was read (fix_raw), or as
\* clean_dataframe left it, with the validation results of that dataset
FixInit ==
    /\ \E shape \in FixPool :
        \E cells \in [1..Len(shape) -> UNION {[1..MaxFixRows -> shape[c].pool] : c \in 1..Len(shape)}] :
            /\ \A c \in 1..Len(shape) : \A r \in 1..MaxFixRows : cells[c][r] \in shape[c].pool
            /\ LET raw == [c \in 1..Len(shape) |-> InputColumn(shape[c].name, cells[c])]
               IN  /\ fix_raw = raw
                   /\ fix_df \in {raw, clean_dataframe(raw)}
    /\ fix_validation = validate_dataframe(fix_df)
    /\ suggested_fixes = <<>>
    /\ fix_pc = "start"
    /\ input_headers = <<>>
    /\ canonical_fields = <<>>
    /\ promoted_aliases = <<>>
    /\ suggestions = <<>>
    /\ map_pc = "idle"
    /\ norm_in = <<>>
    /\ norm_out = <<>>
    /\ norm_pc = "idle"
    /\ clean_key = <<>>
    /\ cell_in = <<>>
    /\ cell_out = <<>>
    /\ cell_again = <<>>
    /\ cell_valid = FALSE
    /\ clean_pc = "idle"
    /\ df = <<>>
    /\ cleaned_df = <<>>
    /\ validation_results = <<>>
    /\ df_pc = "idle"
    /\ df_uploaded = <<>>
    /\ final_mapping = <<>>
    /\ promoted_rules = <<>>
    /\ ss_original_mapped_df = <<>>
    /\ ss_cleaned_df = <<>>
    /\ ss_validation_results = <<>>
    /\ app_pc = "idle"
    /\ store_file = <<>>
    /\ loaded = <<>>
    /\ fixes_data = <<>>
    /\ file_before = <<>>
    /\ save_ok = FALSE
    /\ store_pc = "idle"
    /\ filename = <<>>
    /\ session_keys = {}
    /\ ss_suggested_fixes = <<>>
    /\ ss_applied_fixes = <<>>
    /\ ss_final_df = <<>>
    /\ ss_sources = <<>>
    /\ report = <<>>
    /\ uploads = 0
    /\ sess_pc = "idle"
    /\ schema_file = <<>>
    /\ canonical_out = <<>>
    /\ schema_pc = "idle"

\* suggested_fixes = suggester.suggest_fixes(df, validation_results)
SuggestFixes ==
    /\ fix_pc = "start"
    /\ suggested_fixes' = suggest_fixes(fix_df, fix_validation)
    /\ fix_pc' = "suggested"
    /\ UNCHANGED <<fix_raw, fix_df, fix_validation, mapVars, normVars, cleanVars, dfVars, appVars, storeVars, sessVars, schemaVars>>

SpecFix == FixInit /\ [][SuggestFixes]_vars


(***************************************************************************)
(* The promotion store (persistence.py).  A Python value is a cell value,  *)
(* a dict (its items in insertion order), a list, or an object json cannot *)
(* serialize.  A JSON text is the sequence of its tokens.                  *)
(***************************************************************************)
\* d[key] = val: a new key goes last, an old key keeps its place
SetItem(d, key, val) ==
    IF key \in Keys(d)
    THEN Dict([i \in 1..Len(d.v) |-> IF d.v[i].key = key THEN Item(key, val) ELSE d.v[i]])
    ELSE Dict(Append(d.v, Item(key, val)))

\* Python == on the values a store holds: dicts compare without their order
RECURSIVE ValueEq(_, _)
ValueEq(a, b) ==
    IF a.t # b.t THEN FALSE
    ELSE CASE a.t = "dict" ->
                /\ Keys(a) = Keys(b)
                /\ \A key \in Keys(a) : ValueEq(At(a, key), At(b, key))
           [] a.t = "list" ->
                /\ Len(a.v) = Len(b.v)
                /\ \A i \in 1..Len(a.v) : ValueEq(a.v[i], b.v[i])
           [] a.t = "none" -> TRUE
           [] a.t = "nan" -> FALSE
           [] OTHER -> PyEq(a, b)

\* a token that does not tell a number from a string
TokUntyped(k, s) == [k |-> IF k = "num" THEN "str" ELSE k, s |-> s]

Tok(k, s) == [k |-> k, s |-> s]

\* the chunks json.dump writes for a value, up to the value it cannot
\* serialize (TypeError)
RECURSIVE Dump(_), DumpMembers(_, _, _), DumpElements(_, _, _)
Dump(value) ==
    CASE value.t = "str"  -> [ok |-> TRUE, toks |-> <<Tok("str", value.v)>>]
      [] value.t = "num"  -> [ok |-> TRUE, toks |-> <<Tok("num", value.v)>>]
      [] value.t = "nan"  -> [ok |-> TRUE, toks |-> <<Tok("num", <<"N","a","N">>)>>]
      [] value.t = "none" -> [ok |-> TRUE, toks |-> <<Tok("null", <<>>)>>]
      [] value.t = "dict" -> DumpMembers(value.v, 1, <<Tok("{", <<>>)>>)
      [] value.t = "list" -> DumpElements(value.v, 1, <<Tok("[", <<>>)>>)
      [] OTHER            -> [ok |-> FALSE, toks |-> <<>>]

DumpMembers(items, i, acc) ==
    IF i > Len(items) THEN [ok |-> TRUE, toks |-> Append(acc, Tok("}", <<>>))]
    ELSE LET sep == IF i > 1 THEN <<Tok(",", <<>>)>> ELSE <<>>
             d == Dump(items[i].val)
             toks == acc \o sep \o <<Tok("str", items[i].key), Tok(":", <<>>)>> \o d.toks
         IN  IF d.ok THEN DumpMembers(items, i + 1, toks)
             ELSE [ok |-> FALSE, toks |-> toks]

DumpElements(items, i, acc) ==
    IF i > Len(items) THEN [ok |-> TRUE, toks |-> Append(acc, Tok("]", <<>>))]
    ELSE LET sep == IF i > 1 THEN <<Tok(",", <<>>)>> ELSE <<>>
             d == Dump(items[i])
             toks == acc \o sep \o d.toks
         IN  IF d.ok THEN DumpElements(items, i + 1, toks)
             ELSE [ok |-> FALSE, toks |-> toks]

\* json.load: the value of the first value in toks from position i and the
\* position after it (JSONDecodeError: ok is FALSE)
NoParse == [ok |-> FALSE, val |-> PyNone, next |-> 0]

RECURSIVE ParseValue(_, _), ParseMembers(_, _, _), ParseElements(_, _, _)
ParseValue(toks, i) ==
    IF i > Len(toks) THEN NoParse
    ELSE CASE toks[i].k = "str"  -> [ok |-> TRUE, val |-> Str(toks[i].s), next |-> i + 1]
           [] toks[i].k = "num"  ->
                [ok |-> TRUE,
                 val |-> IF toks[i].s = <<"N","a","N">> THEN NaN ELSE Num(toks[i].s),
                 next |-> i + 1]
           [] toks[i].k = "null" -> [ok |-> TRUE, val |-> PyNone, next |-> i + 1]
           [] toks[i].k = "{" ->
                IF i < Len(toks) /\ toks[i + 1].k = "}"
                THEN [ok |-> TRUE, val |-> Dict(<<>>), next |-> i + 2]
                ELSE ParseMembers(toks, i + 1, Dict(<<>>))
           [] toks[i].k = "[" ->
                IF i < Len(toks) /\ toks[i + 1].k = "]"
                THEN [ok |-> TRUE, val |-> List(<<>>), next |-> i + 2]
                ELSE ParseElements(toks, i + 1, <<>>)
           [] OTHER -> NoParse

\* "key": value, then a comma and more members, or the closing brace
ParseMembers(toks, i, acc) ==
    IF i + 1 > Len(toks) \/ toks[i].k # "str" \/ toks[i + 1].k # ":" THEN NoParse
    ELSE LET member == ParseValue(toks, i + 2)
             dict == SetItem(acc, toks[i].s, member.val)
         IN  IF ~member.ok \/ member.next > Len(toks) THEN NoParse
             ELSE IF toks[member.next].k = "}"
             THEN [ok |-> TRUE, val |-> dict, next |-> member.next + 1]
             ELSE IF toks[member.next].k = ","
             THEN ParseMembers(toks, member.next + 1, dict)
             ELSE NoParse

ParseElements(toks, i, acc) ==
    LET element == ParseValue(toks, i)
    IN  IF ~element.ok \/ element.next > Len(toks) THEN NoParse
        ELSE IF toks[element.next].k = "]"
        THEN [ok |-> TRUE, val |-> List(Append(acc, element.val)), next |-> element.next + 1]
        ELSE IF toks[element.next].k = ","
        THEN ParseElements(toks, element.next + 1, Append(acc, element.val))
        ELSE NoParse

\* json.load of a whole file
Parse(toks) ==
    LET parsed == ParseValue(toks, 1)
    IN  IF parsed.ok /\ parsed.next = Len(toks) + 1 THEN parsed ELSE NoParse

\* {'header_aliases': {}, 'fix_rules': []}
EmptyStore == Dict(<<Item(<<"h","e","a","d","e","r","_","a","l","i","a","s","e","s">>, Dict(<<>>)), Item(<<"f","i","x","_","r","u","l","e","s">>, List(<<>>))>>)

\* the store file: absent, or its text
NoFile == [exists |-> FALSE, toks |-> <<>>]
File(toks) == [exists |-> TRUE, toks |-> toks]

\* len(x) is defined
HasLen(value) == value.t \in {"dict", "list", "str"}

load_promoted_fixes(file) ==
    IF ~file.exists THEN EmptyStore
    \* st_size == 0
    ELSE IF file.toks = <<>> THEN EmptyStore
    ELSE LET parsed == Parse(file.toks)
             data == parsed.val
         IN  \* JSONDecodeError
             IF ~parsed.ok THEN EmptyStore
             \* data.get: AttributeError unless data is a dict
             ELSE IF data.t # "dict" THEN EmptyStore
             \* len(data.get('header_aliases', {})): TypeError
             ELSE IF <<"h","e","a","d","e","r","_","a","l","i","a","s","e","s">> \in Keys(data) /\ ~HasLen(At(data, <<"h","e","a","d","e","r","_","a","l","i","a","s","e","s">>))
             THEN EmptyStore
             ELSE IF <<"f","i","x","_","r","u","l","e","s">> \in Keys(data) /\ ~HasLen(At(data, <<"f","i","x","_","r","u","l","e","s">>))
             THEN EmptyStore
             ELSE data


\* save_promoted_fixes run to its end without an I/O error: the file is
\* opened for writing (emptied), the chunks of json.dump are written, and a
\* TypeError of the dump leaves the chunks written before it
SavedFile(data) == File(Dump(data).toks)

\* the rule add_fix_rule builds
FixRule(field, rule_type, original_value, replacement_value, params) ==
    Dict(<<Item(<<"f","i","e","l","d">>, field), Item(<<"r","u","l","e","_","t","y","p","e">>, rule_type),
           Item(<<"o","r","i","g","i","n","a","l">>, original_value), Item(<<"r","e","p","l","a","c","e","m","e","n","t">>, replacement_value),
           Item(<<"p","a","r","a","m","s">>, params)>>)

\* the rule the Promote button builds from an applied fix
PromotedRule(fix) ==
    Dict(<<Item(<<"f","i","e","l","d">>, Str(fix.field)), Item(<<"r","u","l","e">>, Str(fix.issue_type)),
           Item(<<"o","r","i","g","i","n","a","l">>, fix.original_value),
           Item(<<"r","e","p","l","a","c","e","m","e","n","t">>, fix.suggested_value)>>)

\* rule in rules
InList(rule, rules) == \E i \in 1..Len(rules.v) : ValueEq(rules.v[i], rule)

\* for fix in applied_fixes: if rule not in fix_rules: fix_rules.append(rule)
RECURSIVE AppendNew(_, _)
AppendNew(rules, applied) ==
    IF applied = <<>> THEN rules
    ELSE LET rule == PromotedRule(Head(applied))
         IN  AppendNew(IF InList(rule, rules) THEN rules ELSE List(Append(rules.v, rule)),
                       Tail(applied))

MaxRules == 2       \* rules the store may come to hold

RuleCount(data) ==
    IF <<"f","i","x","_","r","u","l","e","s">> \in Keys(data) /\ At(data, <<"f","i","x","_","r","u","l","e","s">>).t = "list"
    THEN Len(At(data, <<"f","i","x","_","r","u","l","e","s">>).v) ELSE 0

\* store files: absent, empty, cut off, JSON of another shape, and files a
\* save has written
FilePool == {
    NoFile,
    File(<<>>),
    File(<<Tok("{", <<>>), Tok("str", <<"h","e","a","d","e","r","_","a","l","i","a","s","e","s">>), Tok(":", <<>>)>>),
    File(<<Tok("[", <<>>), Tok("]", <<>>)>>),
    File(<<Tok("{", <<>>), Tok("}", <<>>)>>),
    SavedFile(Dict(<<Item(<<"f","i","x","_","r","u","l","e","s">>, List(<<>>))>>)),
    SavedFile(Dict(<<Item(<<"h","e","a","d","e","r","_","a","l","i","a","s","e","s">>, Num(<<"5">>))>>)),
    SavedFile(Dict(<<Item(<<"h","e","a","d","e","r","_","a","l","i","a","s","e","s">>, Str(<<"a","b","c">>)), Item(<<"f","i","x","_","r","u","l","e","s">>, Str(<<"x">>))>>)),
    SavedFile(EmptyStore),
    SavedFile(Dict(<<Item(<<"h","e","a","d","e","r","_","a","l","i","a","s","e","s">>, Dict(<<Item(<<"E","-","m","a","i","l">>, Str(<<"e","m","a","i","l">>))>>)),
                     Item(<<"f","i","x","_","r","u","l","e","s">>, List(<<
                        FixRule(Str(<<"e","m","a","i","l">>), Str(<<"e","m","a","i","l","_","f","o","r","m","a","t">>), Str(<<"a","@","g","m","a","i","l",",","c","o","m">>),
                                Str(<<"a","@","g","m","a","i","l",".","c","o","m">>), Dict(<<>>))>>))>>)) }

\* arguments of add_header_alias
AliasArgs == {<<<<"T","e","l">>, Str(<<"p","h","o","n","e">>)>>, <<<<"E","-","m","a","i","l">>, Str(<<"p","h","o","n","e">>)>>}

\* arguments of add_fix_rule: two plain rules, and one whose params hold a
\* value json cannot serialize
RuleArgs == {
    FixRule(Str(<<"e","m","a","i","l">>), Str(<<"e","m","a","i","l","_","f","o","r","m","a","t">>), Str(<<"a","@","g","m","a","i","l",",","c","o","m">>), Str(<<"a","@","g","m","a","i","l",".","c","o","m">>), Dict(<<>>)),
    FixRule(Str(<<"p","h","o","n","e">>), Str(<<"p","h","o","n","e","_","f","o","r","m","a","t">>), Num(<<"9","8","7","6","5","4","3","2","1",".","0">>), Str(<<"+","9","1"," ","9","8","7","6","5"," ","4","3","2","1","0">>),
            Dict(<<Item(<<"s","o","u","r","c","e">>, Str(<<"u","i">>))>>)),
    FixRule(Str(<<"e","m","a","i","l">>), Str(<<"e","m","a","i","l","_","f","o","r","m","a","t">>), Str(<<"x">>), Str(<<"y">>),
            Dict(<<Item(<<"s","e","e","n">>, Unserializable)>>)) }

\* FixRecords the Apply button may have put in applied_fixes
AppliedRecords == {
    [field |-> <<"e","m","a","i","l">>, row_index |-> 0, original_value |-> Str(<<"a","@","g","m","a","i","l",",","c","o","m">>),
     suggested_value |-> Str(<<"a","@","g","m","a","i","l",".","c","o","m">>), issue_type |-> <<"e","m","a","i","l","_","f","o","r","m","a","t">>, confidence |-> 8],
    [field |-> <<"p","h","o","n","e">>, row_index |-> 1, original_value |-> Num(<<"9","8","7","6","5","4","3","2","1",".","0">>),
     suggested_value |-> Str(<<"+","9","1"," ","9","8","7","6","5"," ","4","3","2","1","0">>), issue_type |-> <<"p","h","o","n","e","_","f","o","r","m","a","t">>, confidence |-> 9] }

MaxApplied == 2     \* longest list of applied fixes

StoreInit ==
    /\ store_file \in FilePool
    /\ loaded = PyNone
    /\ fixes_data = PyNone
    /\ file_before = store_file
    /\ save_ok = TRUE
    /\ store_pc = "start"
    /\ input_headers = <<>>
    /\ canonical_fields = <<>>
    /\ promoted_aliases = <<>>
    /\ suggestions = <<>>
    /\ map_pc = "idle"
    /\ norm_in = <<>>
    /\ norm_out = <<>>
    /\ norm_pc = "idle"
    /\ clean_key = <<>>
    /\ cell_in = <<>>
    /\ cell_out = <<>>
    /\ cell_again = <<>>
    /\ cell_valid = FALSE
    /\ clean_pc = "idle"
    /\ df = <<>>
    /\ cleaned_df = <<>>
    /\ validation_results = <<>>
    /\ df_pc = "idle"
    /\ df_uploaded = <<>>
    /\ final_mapping = <<>>
    /\ promoted_rules = <<>>
    /\ ss_original_mapped_df = <<>>
    /\ ss_cleaned_df = <<>>
    /\ ss_validation_results = <<>>
    /\ app_pc = "idle"
    /\ fix_raw = <<>>
    /\ fix_df = <<>>
    /\ fix_validation = <<>>
    /\ suggested_fixes = <<>>
    /\ fix_pc = "idle"
    /\ filename = <<>>
    /\ session_keys = {}
    /\ ss_suggested_fixes = <<>>
    /\ ss_applied_fixes = <<>>
    /\ ss_final_df = <<>>
    /\ ss_sources = <<>>
    /\ report = <<>>
    /\ uploads = 0
    /\ sess_pc = "idle"
    /\ schema_file = <<>>
    /\ canonical_out = <<>>
    /\ schema_pc = "idle"

\* load_promoted_fixes()
Load ==
    /\ loaded' = load_promoted_fixes(store_file)
    /\ store_pc' = "loaded"
    /\ UNCHANGED <<store_file, fixes_data, file_before, save_ok,
                   mapVars, normVars, cleanVars, dfVars, appVars, fixVars, sessVars, schemaVars>>

\* save_promoted_fixes(load_promoted_fixes())
SaveLoaded ==
    LET data == load_promoted_fixes(store_file)
    IN  /\ loaded' = data
        /\ fixes_data' = data
        /\ file_before' = store_file
        /\ store_file' = SavedFile(data)
        /\ save_ok' = Dump(data).ok
        /\ store_pc' = "resaved"
        /\ UNCHANGED <<mapVars, normVars, cleanVars, dfVars, appVars, fixVars, sessVars, schemaVars>>

\* add_header_alias(original_header, canonical_field): a store without a
\* header_aliases dict raises in the assignment and the call returns False
AddHeaderAlias ==
    \E args \in AliasArgs :
        LET current_fixes == load_promoted_fixes(store_file)
            failed == \/ <<"h","e","a","d","e","r","_","a","l","i","a","s","e","s">> \notin Keys(current_fixes)
                      \/ At(current_fixes, <<"h","e","a","d","e","r","_","a","l","i","a","s","e","s">>).t # "dict"
            data == IF failed THEN current_fixes
                    ELSE SetItem(current_fixes, <<"h","e","a","d","e","r","_","a","l","i","a","s","e","s">>,
                                 SetItem(At(current_fixes, <<"h","e","a","d","e","r","_","a","l","i","a","s","e","s">>), args[1], args[2]))
        IN  /\ loaded' = current_fixes
            /\ file_before' = store_file
            /\ fixes_data' = IF failed THEN fixes_data ELSE data
            /\ store_file' = IF failed THEN store_file ELSE SavedFile(data)
            /\ save_ok' = (~failed /\ Dump(data).ok)
            /\ store_pc' = "add_header_alias"
            /\ UNCHANGED <<mapVars, normVars, cleanVars, dfVars, appVars, fixVars, sessVars, schemaVars>>

\* add_fix_rule(field, rule_type, original_value, replacement_value, **params)
AddFixRule ==
    \E rule \in RuleArgs :
        LET current_fixes == load_promoted_fixes(store_file)
            failed == \/ <<"f","i","x","_","r","u","l","e","s">> \notin Keys(current_fixes)
                      \/ At(current_fixes, <<"f","i","x","_","r","u","l","e","s">>).t # "list"
            data == IF failed THEN current_fixes
                    ELSE SetItem(current_fixes, <<"f","i","x","_","r","u","l","e","s">>,
                                 List(Append(At(current_fixes, <<"f","i","x","_","r","u","l","e","s">>).v, rule)))
        IN  /\ RuleCount(current_fixes) < MaxRules
            /\ loaded' = current_fixes
            /\ file_before' = store_file
            /\ fixes_data' = IF failed THEN fixes_data ELSE data
            /\ store_file' = IF failed THEN store_file ELSE SavedFile(data)
            /\ save_ok' = (~failed /\ Dump(data).ok)
            /\ store_pc' = "add_fix_rule"
            /\ UNCHANGED <<mapVars, normVars, cleanVars, dfVars, appVars, fixVars, sessVars, schemaVars>>

\* the Promote Applied Fixes button of handle_targeted_fixes; a fix_rules
\* that is no list raises in the membership test and nothing is saved
PromoteApplied ==
    \E applied_fixes \in SeqsUpTo(AppliedRecords, MaxApplied) \ {<<>>} :
        LET current_promoted == load_promoted_fixes(store_file)
            with_rules == IF <<"f","i","x","_","r","u","l","e","s">> \in Keys(current_promoted) THEN current_promoted
                          ELSE SetItem(current_promoted, <<"f","i","x","_","r","u","l","e","s">>, List(<<>>))
            failed == At(with_rules, <<"f","i","x","_","r","u","l","e","s">>).t # "list"
            data == IF failed THEN with_rules
                    ELSE SetItem(with_rules, <<"f","i","x","_","r","u","l","e","s">>,
                                 AppendNew(At(with_rules, <<"f","i","x","_","r","u","l","e","s">>), applied_fixes))
        IN  /\ RuleCount(current_promoted) + Len(applied_fixes) <= MaxRules
            /\ loaded' = current_promoted
            /\ file_before' = store_file
            /\ fixes_data' = IF failed THEN fixes_data ELSE data
            /\ store_file' = IF failed THEN store_file ELSE SavedFile(data)
            /\ save_ok' = (~failed /\ Dump(data).ok)
            /\ store_pc' = "promoted"
            /\ UNCHANGED <<mapVars, normVars, cleanVars, dfVars, appVars, fixVars, sessVars, schemaVars>>

SpecStore ==
    StoreInit /\ [][Load \/ SaveLoaded \/ AddHeaderAlias \/ AddFixRule \/ PromoteApplied]_vars


(***************************************************************************)
(* One save_promoted_fixes call step by step, with a load_promoted_fixes   *)
(* of another session at any point of it                                   *)
(***************************************************************************)
StoreA == Dict(<<Item(<<"h","e","a","d","e","r","_","a","l","i","a","s","e","s">>, Dict(<<Item(<<"E","-","m","a","i","l">>, Str(<<"e","m","a","i","l">>))>>)),
                 Item(<<"f","i","x","_","r","u","l","e","s">>, List(<<>>))>>)

StoreB == Dict(<<Item(<<"h","e","a","d","e","r","_","a","l","i","a","s","e","s">>, Dict(<<Item(<<"E","-","m","a","i","l">>, Str(<<"e","m","a","i","l">>))>>)),
                 Item(<<"f","i","x","_","r","u","l","e","s">>, List(<<
                    FixRule(Str(<<"e","m","a","i","l">>), Str(<<"e","m","a","i","l","_","f","o","r","m","a","t">>), Str(<<"a","@","g","m","a","i","l",",","c","o","m">>),
                            Str(<<"a","@","g","m","a","i","l",".","c","o","m">>), Dict(<<>>))>>))>>)

StoreUnserializable ==
    Dict(<<Item(<<"h","e","a","d","e","r","_","a","l","i","a","s","e","s">>, Dict(<<Item(<<"E","-","m","a","i","l">>, Str(<<"e","m","a","i","l">>))>>)),
           Item(<<"f","i","x","_","r","u","l","e","s">>, List(<<
              FixRule(Str(<<"e","m","a","i","l">>), Str(<<"e","m","a","i","l","_","f","o","r","m","a","t">>), Str(<<"x">>), Str(<<"y">>),
                      Dict(<<Item(<<"s","e","e","n">>, Unserializable)>>))>>))>>)

SaveInit ==
    /\ store_file \in {NoFile, SavedFile(StoreA), SavedFile(StoreB)}
    /\ fixes_data \in {StoreA, StoreB, StoreUnserializable}
    /\ loaded = PyNone
    /\ file_before = store_file
    /\ save_ok = TRUE
    /\ store_pc = "start"
    /\ input_headers = <<>>
    /\ canonical_fields = <<>>
    /\ promoted_aliases = <<>>
    /\ suggestions = <<>>
    /\ map_pc = "idle"
    /\ norm_in = <<>>
    /\ norm_out = <<>>
    /\ norm_pc = "idle"
    /\ clean_key = <<>>
    /\ cell_in = <<>>
    /\ cell_out = <<>>
    /\ cell_again = <<>>
    /\ cell_valid = FALSE
    /\ clean_pc = "idle"
    /\ df = <<>>
    /\ cleaned_df = <<>>
    /\ validation_results = <<>>
    /\ df_pc = "idle"
    /\ df_uploaded = <<>>
    /\ final_mapping = <<>>
    /\ promoted_rules = <<>>
    /\ ss_original_mapped_df = <<>>
    /\ ss_cleaned_df = <<>>
    /\ ss_validation_results = <<>>
    /\ app_pc = "idle"
    /\ fix_raw = <<>>
    /\ fix_df = <<>>
    /\ fix_validation = <<>>
    /\ suggested_fixes = <<>>
    /\ fix_pc = "idle"
    /\ filename = <<>>
    /\ session_keys = {}
    /\ ss_suggested_fixes = <<>>
    /\ ss_applied_fixes = <<>>
    /\ ss_final_df = <<>>
    /\ ss_sources = <<>>
    /\ report = <<>>
    /\ uploads = 0
    /\ sess_pc = "idle"
    /\ schema_file = <<>>
    /\ canonical_out = <<>>
    /\ schema_pc = "idle"

\* mkdir and open(storage_path, 'w'): OSError, or the file is created or
\* emptied
SaveOpen ==
    /\ store_pc = "start"
    /\ \/ /\ save_ok' = FALSE
          /\ store_pc' = "returned"
          /\ UNCHANGED store_file
       \/ /\ store_file' = File(<<>>)
          /\ store_pc' = "writing"
          /\ UNCHANGED save_ok
    /\ UNCHANGED <<loaded, fixes_data, file_before,
                   mapVars, normVars, cleanVars, dfVars, appVars, fixVars, sessVars, schemaVars>>

\* the buffer of the open file is flushed: some more chunks of the dump
\* reach the file
SaveFlush ==
    /\ store_pc = "writing"
    /\ \E n \in (Len(store_file.toks) + 1)..Len(Dump(fixes_data).toks) :
        store_file' = File(SubSeq(Dump(fixes_data).toks, 1, n))
    /\ UNCHANGED <<loaded, fixes_data, file_before, save_ok, store_pc,
                   mapVars, normVars, cleanVars, dfVars, appVars, fixVars, sessVars, schemaVars>>

\* OSError in a write (the disk is full): the except branch returns False
SaveWriteError ==
    /\ store_pc = "writing"
    /\ save_ok' = FALSE
    /\ store_pc' = "returned"
    /\ UNCHANGED <<store_file, loaded, fixes_data, file_before,
                   mapVars, normVars, cleanVars, dfVars, appVars, fixVars, sessVars, schemaVars>>

\* the with block ends: every chunk written is in the file; return True, or
\* False after the TypeError of json.dump
SaveClose ==
    /\ store_pc = "writing"
    /\ store_file' = SavedFile(fixes_data)
    /\ save_ok' = Dump(fixes_data).ok
    /\ store_pc' = "returned"
    /\ UNCHANGED <<loaded, fixes_data, file_before,
                   mapVars, normVars, cleanVars, dfVars, appVars, fixVars, sessVars, schemaVars>>

\* load_promoted_fixes() in another session while the save runs
ConcurrentLoad ==
    /\ store_pc \in {"start", "writing"}
    /\ loaded' = load_promoted_fixes(store_file)
    /\ UNCHANGED <<store_file, fixes_data, file_before, save_ok, store_pc,
                   mapVars, normVars, cleanVars, dfVars, appVars, fixVars, sessVars, schemaVars>>

\* load_promoted_fixes() after the save has returned
LoadAfterSave ==
    /\ store_pc = "returned"
    /\ loaded' = load_promoted_fixes(store_file)
    /\ store_pc' = "loaded_after"
    /\ UNCHANGED <<store_file, fixes_data, file_before, save_ok,
                   mapVars, normVars, cleanVars, dfVars, appVars, fixVars, sessVars, schemaVars>>

SpecSave ==
    SaveInit /\ [][SaveOpen \/ SaveFlush \/ SaveWriteError \/ SaveClose
                   \/ ConcurrentLoad \/ LoadAfterSave]_vars


(***************************************************************************)
(* One Streamlit session over several uploads (app.py, main).  Every       *)
(* interaction reruns the script: the four tabs are rendered in order on   *)
(* the uploaded dataset and on what st.session_state holds.  ss_sources    *)
(* is a history variable: for each session value, the uploads whose data   *)
(* or confirmation went into it.  suggest_fixes is a function of the       *)
(* session's cleaned_df and validation_results, which only                 *)
(* handle_data_cleaning writes: ss_suggested_fixes keeps its result with   *)
(* them, for the runs that leave them as they are.                         *)
(***************************************************************************)
MaxUploads == 2         \* files uploaded in one session
MaxApprovals == 2       \* Apply buttons pressed in one session

\* the files the user can upload
SessionUploads == {
    [filename |-> <<"a",".","c","s","v">>,
     frame |-> <<InputColumn(<<"E","m","a","i","l">>, <<Str(<<"a","@","g","m","a","i","l",",","c","o","m">>), Str(<<"a","@","g","m","a","i","l",",","c","o","m">>)>>)>>],
    [filename |-> <<"b",".","c","s","v">>,
     frame |-> <<InputColumn(<<"E","m","a","i","l">>, <<Str(<<"A","@","g","m","a","i","l",",","c","o","m">>), Str(<<"b","@","y","a","h","o","o",",","c","o","m">>)>>)>>],
    [filename |-> <<"c",".","c","s","v">>,
     frame |-> <<InputColumn(<<"M","a","i","l">>, <<Str(<<"c","@","d",".","c","o","m">>), Str(<<"c","@","d",".","c","o","m">>)>>)>>] }

NoSources == [final_mapping |-> {}, cleaned_df |-> {}, applied_fixes |-> {}, final_df |-> {}]

\* nothing is rendered in the Final Report tab
NoReport == [shown |-> FALSE, df |-> <<>>, filename |-> <<>>, sources |-> {}]

NoPress == [kind |-> "none", k |-> 0]
Press(kind, k) == [kind |-> kind, k |-> k]

\* mask = final_df[fix['field']] == fix['original_value'];
\* final_df.loc[mask, fix['field']] = fix['suggested_value']
ApplyFix(frame, fix) ==
    [c \in 1..Len(frame) |->
        IF frame[c].name # fix.field THEN frame[c]
        ELSE LET cells == [r \in 1..Len(frame[c].cells) |->
                             IF PyEq(frame[c].cells[r], fix.original_value)
                             THEN fix.suggested_value ELSE frame[c].cells[r]]
             IN  Column(frame[c].name,
                        IF cells = frame[c].cells THEN frame[c].dtype
                        ELSE InferDtype(cells),
                        cells)]

\* for fix in st.session_state.applied_fixes: ...
RECURSIVE ApplyFixes(_, _)
ApplyFixes(frame, applied) ==
    IF applied = <<>> THEN frame
    ELSE ApplyFixes(ApplyFix(frame, Head(applied)), Tail(applied))

\* final_df[fix['field']] raises KeyError
FixRaises(frame, applied) ==
    \E i \in 1..Len(applied) : ~HasColumn(frame, applied[i].field)

\* handle_targeted_fixes on the session's cleaned_df, with the button
\* pressed in this run; src are the sources of the session values
handle_targeted_fixes(keys, cleaned, suggested, applied, final, src, press) ==
    LET now == IF press.kind = "apply" THEN Append(applied, suggested[press.k]) ELSE applied
        now_src == IF press.kind = "apply"
                   THEN [src EXCEPT !.applied_fixes = @ \cup src.cleaned_df] ELSE src
    IN  IF suggested = <<>>
        THEN [keys |-> keys \cup {"final_df"}, applied |-> applied, final |-> cleaned,
              src |-> [src EXCEPT !.final_df = src.cleaned_df], raised |-> FALSE]
        ELSE IF now = <<>>
        THEN [keys |-> keys \cup {"applied_fixes"}, applied |-> now, final |-> final,
              src |-> now_src, raised |-> FALSE]
        ELSE IF FixRaises(cleaned, now)
        THEN [keys |-> keys \cup {"applied_fixes"}, applied |-> now, final |-> final,
              src |-> now_src, raised |-> TRUE]
        ELSE [keys |-> keys \cup {"applied_fixes", "final_df"}, applied |-> now,
              final |-> ApplyFixes(cleaned, now),
              src |-> [now_src EXCEPT !.final_df = now_src.cleaned_df \cup now_src.applied_fixes],
              raised |-> FALSE]

\* handle_final_report(filename)
handle_final_report(final, name, sources) ==
    [shown |-> TRUE, df |-> final, filename |-> name, sources |-> sources]

\* tabs 3 and 4 of one run of main: Targeted Fixes when the session holds
\* cleaned_df and validation_results, Final Report when it holds final_df;
\* an exception in a tab ends the run
RenderFixesAndReport(keys, cleaned, suggested, src, name, press) ==
    \E done \in {IF "cleaned_df" \in keys
                 THEN handle_targeted_fixes(keys, cleaned, suggested,
                                            ss_applied_fixes, ss_final_df, src, press)
                 ELSE [keys |-> keys, applied |-> ss_applied_fixes, final |-> ss_final_df,
                       src |-> src, raised |-> FALSE]} :
        /\ ss_suggested_fixes' = suggested
        /\ session_keys' = done.keys
        /\ ss_applied_fixes' = done.applied
        /\ ss_final_df' = done.final
        /\ ss_sources' = done.src
        /\ report' = IF "final_df" \in done.keys /\ ~done.raised
                     THEN handle_final_report(done.final, name, done.src.final_df)
                     ELSE NoReport

SessionInit ==
    /\ \E up \in SessionUploads :
        /\ df_uploaded = up.frame
        /\ filename = up.filename
    /\ promoted_rules = <<>>
    /\ final_mapping = <<>>
    /\ ss_original_mapped_df = <<>>
    /\ ss_cleaned_df = <<>>
    /\ ss_validation_results = <<>>
    /\ app_pc = "uploaded"
    /\ session_keys = {}
    /\ ss_suggested_fixes = <<>>
    /\ ss_applied_fixes = <<>>
    /\ ss_final_df = <<>>
    /\ ss_sources = NoSources
    /\ report = NoReport
    /\ uploads = 1
    /\ sess_pc = "uploaded"
    /\ input_headers = <<>>
    /\ canonical_fields = <<>>
    /\ promoted_aliases = <<>>
    /\ suggestions = <<>>
    /\ map_pc = "idle"
    /\ norm_in = <<>>
    /\ norm_out = <<>>
    /\ norm_pc = "idle"
    /\ clean_key = <<>>
    /\ cell_in = <<>>
    /\ cell_out = <<>>
    /\ cell_again = <<>>
    /\ cell_valid = FALSE
    /\ clean_pc = "idle"
    /\ df = <<>>
    /\ cleaned_df = <<>>
    /\ validation_results = <<>>
    /\ df_pc = "idle"
    /\ fix_raw = <<>>
    /\ fix_df = <<>>
    /\ fix_validation = <<>>
    /\ suggested_fixes = <<>>
    /\ fix_pc = "idle"
    /\ store_file = <<>>
    /\ loaded = <<>>
    /\ fixes_data = <<>>
    /\ file_before = <<>>
    /\ save_ok = FALSE
    /\ store_pc = "idle"
    /\ schema_file = <<>>
    /\ canonical_out = <<>>
    /\ schema_pc = "idle"

\* another file is put into the uploader
UploadFile ==
    /\ uploads < MaxUploads
    /\ \E up \in SessionUploads :
        /\ up.filename # filename
        /\ df_uploaded' = up.frame
        /\ filename' = up.filename
        /\ RenderFixesAndReport(session_keys, ss_cleaned_df, ss_suggested_fixes,
                                ss_sources, up.filename, NoPress)
    /\ uploads' = uploads + 1
    /\ sess_pc' = "uploaded"
    /\ UNCHANGED <<final_mapping, promoted_rules, ss_original_mapped_df, ss_cleaned_df,
                   ss_validation_results, app_pc,
                   mapVars, normVars, cleanVars, dfVars, fixVars, storeVars, schemaVars>>

\* the Confirm Mapping button
ConfirmMappingRun ==
    /\ \E selected \in Selections(df_uploaded) :
        final_mapping' = SelectedMapping(df_uploaded, selected)
    /\ RenderFixesAndReport(session_keys \cup {"final_mapping"}, ss_cleaned_df,
                            ss_suggested_fixes,
                            [ss_sources EXCEPT !.final_mapping = {filename}],
                            filename, NoPress)
    /\ sess_pc' = "confirmed"
    /\ UNCHANGED <<df_uploaded, filename, uploads, promoted_rules, ss_original_mapped_df,
                   ss_cleaned_df, ss_validation_results, app_pc,
                   mapVars, normVars, cleanVars, dfVars, fixVars, storeVars, schemaVars>>

\* the Run Data Cleaning & Validation button, shown when the session holds
\* final_mapping
RunCleaningRun ==
    /\ "final_mapping" \in session_keys
    /\ IF CleaningFails(df_uploaded, final_mapping)
       THEN /\ UNCHANGED <<ss_original_mapped_df, ss_cleaned_df, ss_validation_results, schemaVars>>
            /\ RenderFixesAndReport(session_keys, ss_cleaned_df, ss_suggested_fixes,
                                    ss_sources, filename, NoPress)
            /\ sess_pc' = "failed"
       ELSE \E order \in Orderings(MappedFields(final_mapping)) :
            \E done \in {DataCleaning(df_uploaded, final_mapping, promoted_rules, order)} :
            \E suggested \in {suggest_fixes(done.cleaned_df, done.validation_results)} :
            \E src \in {[ss_sources EXCEPT
                            !.cleaned_df = {filename} \cup ss_sources.final_mapping]} :
                /\ ss_original_mapped_df' = done.original_mapped_df
                /\ ss_cleaned_df' = done.cleaned_df
                /\ ss_validation_results' = done.validation_results
                /\ RenderFixesAndReport(session_keys \cup {"cleaned_df"}, done.cleaned_df,
                                        suggested, src, filename, NoPress)
                /\ sess_pc' = "cleaned"
    /\ UNCHANGED <<df_uploaded, filename, uploads, final_mapping, promoted_rules, app_pc,
                   mapVars, normVars, cleanVars, dfVars, fixVars, storeVars, schemaVars>>

\* one of the Apply buttons of the Targeted Fixes tab
ApplyFixRun ==
    /\ "cleaned_df" \in session_keys
    /\ Len(ss_applied_fixes) < MaxApprovals
    /\ \E k \in 1..Len(ss_suggested_fixes) :
        RenderFixesAndReport(session_keys, ss_cleaned_df, ss_suggested_fixes,
                             ss_sources, filename, Press("apply", k))
    /\ sess_pc' = "applied"
    /\ UNCHANGED <<df_uploaded, filename, uploads, appVars,
                   mapVars, normVars, cleanVars, dfVars, fixVars, storeVars, schemaVars>>

\* the Promote Applied Fixes button, shown after the applied fixes were put
\* into final_df
PromoteRun ==
    /\ "cleaned_df" \in session_keys
    /\ ss_suggested_fixes # <<>>
    /\ ss_applied_fixes # <<>>
    /\ ~FixRaises(ss_cleaned_df, ss_applied_fixes)
    /\ promoted_rules' = AppendNew(List(promoted_rules), ss_applied_fixes).v
    /\ RenderFixesAndReport(session_keys, ss_cleaned_df, ss_suggested_fixes,
                            ss_sources, filename, Press("promote", 0))
    /\ sess_pc' = "promoted"
    /\ UNCHANGED <<df_uploaded, filename, uploads, final_mapping, ss_original_mapped_df,
                   ss_cleaned_df, ss_validation_results, app_pc,
                   mapVars, normVars, cleanVars, dfVars, fixVars, storeVars, schemaVars>>

SpecSession ==
    SessionInit /\ [][UploadFile \/ ConfirmMappingRun \/ RunCleaningRun
                      \/ ApplyFixRun \/ PromoteRun]_vars


(***************************************************************************)
(* SchemaLoader.load_canonical_schema (schema_loader.py).  The schema file *)
(* is the table pd.read_csv makes of it: its columns, a name and the cells *)
(* under it.                                                               *)
(***************************************************************************)
MaxSchemaRows == 2      \* rows of the schema file

NoSchema == [ok |-> FALSE, fields |-> <<>>]

\* .dropna().astype(str).str.strip().tolist()
FieldNames(cells) ==
    LET kept == SelectSeq(cells, LAMBDA cell : ~IsNa(cell))
    IN  [i \in 1..Len(kept) |-> Strip(kept[i].v)]

load_canonical_schema(file) ==
    IF ~file.exists THEN NoSchema
    ELSE IF HasColumn(file.columns, <<"c","a","n","o","n","i","c","a","l","_","n","a","m","e">>)
    THEN [ok |-> TRUE, fields |-> FieldNames(ColumnNamed(file.columns, <<"c","a","n","o","n","i","c","a","l","_","n","a","m","e">>).cells)]
    ELSE IF HasColumn(file.columns, <<"n","a","m","e">>)
    THEN [ok |-> TRUE, fields |-> FieldNames(ColumnNamed(file.columns, <<"n","a","m","e">>).cells)]
    ELSE NoSchema

\* the column names and the cells of a schema file
SchemaHeaders == {<<"c","a","n","o","n","i","c","a","l","_","n","a","m","e">>, <<"n","a","m","e">>, <<"f","i","e","l","d">>}
SchemaCells == {Str(<<"e","m","a","i","l">>), Str(<<" ","e","m","a","i","l">>), Str(<<"p","h","o","n","e">>), NaN}

SchemaInit ==
    /\ \/ schema_file = [exists |-> FALSE, columns |-> <<>>]
       \/ \E header \in SchemaHeaders : \E n \in 0..MaxSchemaRows :
            \E cells \in [1..n -> SchemaCells] :
                schema_file = [exists |-> TRUE,
                               columns |-> <<InputColumn(header, cells)>>]
    /\ canonical_out = NoSchema
    /\ schema_pc = "start"
    /\ input_headers = <<>>
    /\ canonical_fields = <<>>
    /\ promoted_aliases = <<>>
    /\ suggestions = <<>>
    /\ map_pc = "idle"
    /\ norm_in = <<>>
    /\ norm_out = <<>>
    /\ norm_pc = "idle"
    /\ clean_key = <<>>
    /\ cell_in = <<>>
    /\ cell_out = <<>>
    /\ cell_again = <<>>
    /\ cell_valid = FALSE
    /\ clean_pc = "idle"
    /\ df = <<>>
    /\ cleaned_df = <<>>
    /\ validation_results = <<>>
    /\ df_pc = "idle"
    /\ df_uploaded = <<>>
    /\ final_mapping = <<>>
    /\ promoted_rules = <<>>
    /\ ss_original_mapped_df = <<>>
    /\ ss_cleaned_df = <<>>
    /\ ss_validation_results = <<>>
    /\ app_pc = "idle"
    /\ fix_raw = <<>>
    /\ fix_df = <<>>
    /\ fix_validation = <<>>
    /\ suggested_fixes = <<>>
    /\ fix_pc = "idle"
    /\ store_file = <<>>
    /\ loaded = <<>>
    /\ fixes_data = <<>>
    /\ file_before = <<>>
    /\ save_ok = FALSE
    /\ store_pc = "idle"
    /\ filename = <<>>
    /\ session_keys = {}
    /\ ss_suggested_fixes = <<>>
    /\ ss_applied_fixes = <<>>
    /\ ss_final_df = <<>>
    /\ ss_sources = <<>>
    /\ report = <<>>
    /\ uploads = 0
    /\ sess_pc = "idle"

LoadCanonicalSchema ==
    /\ schema_pc = "start"
    /\ canonical_out' = load_canonical_schema(schema_file)
    /\ schema_pc' = "loaded"
    /\ UNCHANGED <<schema_file, mapVars, normVars, cleanVars, dfVars, appVars, fixVars,
                   storeVars, sessVars>>

SpecSchema == SchemaInit /\ [][LoadCanonicalSchema]_vars


(***************************************************************************)
(* Properties of suggest_mappings                                          *)
(***************************************************************************)
HeaderSet == Range(input_headers)

Unpromoted(h) == h \notin DOMAIN promoted_aliases

\* the positions of the canonical fields whose normal form equals h's
ExactAt(h) ==
    {k \in 1..Len(canonical_fields) :
        _normalize_header(h) = _normalize_header(canonical_fields[k])}

MinOf(S) == CHOOSE k \in S : \A m \in S : k <= m

\* the scores the three heuristics give header h against canonical field c
HeuristicScores(h, c) ==
    LET hc == _normalize_header(h)
        cc == _normalize_header(c)
        j  == Jaccard(hc, cc)
        r  == FuzzRatio(hc, cc)
    IN  (IF AliasHit(hc, c) THEN {AliasConfidence} ELSE {})
        \cup (IF TokenHit(hc, cc) THEN {TokenConfidence(j[1], j[2])} ELSE {})
        \cup (IF FuzzyHit(r) THEN {FuzzyConfidence(r)} ELSE {})

MaxScore(S) ==
    IF S = {} THEN ScoreZero ELSE CHOOSE x \in S : \A y \in S : ScoreGE(x, y)

FieldScore(h, c) == MaxScore(HeuristicScores(h, c))

BestScore(h) ==
    MaxScore({FieldScore(h, canonical_fields[k]) : k \in 1..Len(canonical_fields)})

\* the positions of the canonical fields that reach the best score of h
BestAt(h) ==
    {k \in 1..Len(canonical_fields) :
        ScoreEQ(FieldScore(h, canonical_fields[k]), BestScore(h))}

\* C1: after suggest_mappings, every input header that is a key of
\* promoted_aliases has the suggestion {promoted_aliases[h], 1.0, promoted_alias},
\* whatever the canonical fields are.
C1_PromotedAliasWins ==
    map_pc = "done" =>
        \A h \in HeaderSet :
            ~Unpromoted(h) =>
                /\ h \in DOMAIN suggestions
                /\ suggestions[h] =
                       Suggestion(promoted_aliases[h], ScoreOne, "promoted_alias")

\* a promoted header that also equals a canonical field other than its target
C1_Witness ==
    /\ map_pc = "done"
    /\ \E h \in HeaderSet :
          /\ ~Unpromoted(h)
          /\ ExactAt(h) # {}
          /\ \A k \in ExactAt(h) : canonical_fields[k] # promoted_aliases[h]
          /\ suggestions[h].method = "promoted_alias"

\* C2 as stated: for every unpromoted header h and every canonical field c of
\* the list with normalize(h) = normalize(c), the suggestion is {c, 1.0, exact_match}.
C2_ExactMatchEveryEqualField ==
    map_pc = "done" =>
        \A h \in HeaderSet : \A k \in ExactAt(h) :
            Unpromoted(h) =>
                /\ h \in DOMAIN suggestions
                /\ suggestions[h] =
                       Suggestion(canonical_fields[k], ScoreOne, "exact_match")

\* C2 amended: for every unpromoted header h whose normal form equals that of
\* some canonical field, the suggestion is {c, 1.0, exact_match} for the FIRST
\* such field c of the list, whatever the earlier fields scored.
C2_ExactMatchFirstEqualField ==
    map_pc = "done" =>
        \A h \in HeaderSet :
            (Unpromoted(h) /\ ExactAt(h) # {}) =>
                /\ h \in DOMAIN suggestions
                /\ suggestions[h] =
                       Suggestion(canonical_fields[MinOf(ExactAt(h))], ScoreOne,
                                  "exact_match")

\* an exact match found after an earlier canonical field already gave a score
C2_Witness ==
    /\ map_pc = "done"
    /\ \E h \in HeaderSet :
          /\ Unpromoted(h)
          /\ ExactAt(h) # {}
          /\ MinOf(ExactAt(h)) > 1
          /\ HeuristicScores(h, canonical_fields[1]) # {}
          /\ suggestions[h].method = "exact_match"

\* C3: every suggestion has 0.6 < confidence <= 1.0, and an unpromoted header
\* without an exact match whose best score is 0.6 or lower has no entry.
C3_ThresholdLaw ==
    map_pc = "done" =>
        /\ \A h \in DOMAIN suggestions :
              /\ ScoreGT(suggestions[h].confidence, Score(6, 10, 0))
              /\ ScoreGE(ScoreOne, suggestions[h].confidence)
        /\ \A h \in HeaderSet :
              (/\ Unpromoted(h)
               /\ ExactAt(h) = {}
               /\ ~ScoreGT(BestScore(h), Score(6, 10, 0))) => h \notin DOMAIN suggestions

\* a header scored against two canonical fields, none above 0.6, left unmapped
C3_Witness ==
    /\ map_pc = "done"
    /\ Len(canonical_fields) = 2
    /\ \E h \in HeaderSet :
          /\ Unpromoted(h)
          /\ ~ScoreGT(BestScore(h), Score(6, 10, 0))
          /\ h \notin DOMAIN suggestions

\* C4: without promoted alias and exact match, the suggested field is the
\* first canonical field, in list order, that reaches the highest heuristic
\* score, and the confidence is that score.
C4_FirstBestFieldWins ==
    map_pc = "done" =>
        \A h \in HeaderSet :
            (Unpromoted(h) /\ ExactAt(h) = {} /\ h \in DOMAIN suggestions) =>
                /\ suggestions[h].mapped_field = canonical_fields[MinOf(BestAt(h))]
                /\ ScoreEQ(suggestions[h].confidence, BestScore(h))

\* two different canonical fields tie at the best score
C4_Witness ==
    /\ map_pc = "done"
    /\ \E h \in HeaderSet :
          /\ Unpromoted(h)
          /\ ExactAt(h) = {}
          /\ h \in DOMAIN suggestions
          /\ Cardinality(BestAt(h)) > 1
          /\ suggestions[h].mapped_field = canonical_fields[1]
          /\ suggestions[h].mapped_field # canonical_fields[2]

\* C5 as stated: promoted_alias and exact_match give 1.0, alias_match gives 0.95,
\* token_overlap a value in (0.8, 0.95], fuzzy_match a value in (0.6, 0.75].
C5_ConfidenceRangePerMethod ==
    map_pc = "done" =>
        \A h \in DOMAIN suggestions :
            LET c == suggestions[h].confidence
                m == suggestions[h].method
            IN  /\ m \in {"promoted_alias", "exact_match"} => ScoreEQ(c, ScoreOne)
                /\ m = "alias_match" => ScoreEQ(c, Score(95, 100, 0))
                /\ m = "token_overlap" =>
                       ScoreGT(c, Score(8, 10, 0)) /\ ScoreGE(Score(95, 100, 0), c)
                /\ m = "fuzzy_match" =>
                       ScoreGT(c, Score(6, 10, 0)) /\ ScoreGE(Score(75, 100, 0), c)


(***************************************************************************)
(* Properties of _normalize_header                                         *)
(***************************************************************************)
\* lower-case words of letters and digits joined by single spaces
IsNormalForm(s) ==
    /\ \A i \in 1..Len(s) : s[i] \in LowerLetters \cup Digits \cup {" "}
    /\ \A i \in 1..(Len(s) - 1) : ~(s[i] = " " /\ s[i + 1] = " ")
    /\ s # <<>> => (s[1] # " " /\ s[Len(s)] # " ")

\* C6 as stated: every character that is not a letter or digit, underscore and
\* hyphen included, separates words: the result is lower-case words joined by
\* single spaces, and 'Mixed_Case-Header' becomes 'mixed case header'.
C6_NormalizeSeparatesOnNonAlnum ==
    norm_pc = "done" =>
        /\ IsNormalForm(norm_out)
        /\ norm_in = <<"M","i","x","e","d","_","C","a","s","e","-","H","e","a","d","e","r">> => norm_out = <<"m","i","x","e","d"," ","c","a","s","e"," ","h","e","a","d","e","r">>

(***************************************************************************)
(* Properties of the cleaning and validation functions                     *)
(***************************************************************************)
\* C7 as stated: every cleaning function is idempotent: for every non-null
\* input, cleaning the cleaned value again returns the cleaned value.
C7_CleanersIdempotent ==
    clean_pc \in {"recleaned", "done"} /\ ~IsNa(cell_in) => cell_again = cell_out

\* number of digits in the text of a cell
DigitCount(value) == Len(SelectSeq(PyStr(value), IsDigitChar))

PhoneChecked == clean_pc = "done" /\ clean_key = <<"p","h","o","n","e">> /\ ~IsNa(cell_in)

\* C8 as stated: for every non-null input the cleaned phone number matches the
\* phone validator.
C8_CleanedPhoneAlwaysValid == PhoneChecked => cell_valid

\* C8 amended: the cleaned phone number matches the phone validator exactly
\* when the input holds at least ten digits; with fewer digits the cleaned
\* value is the bare digit string, which the validator rejects.
C8_CleanedPhoneValidFromTenDigits ==
    PhoneChecked =>
        /\ cell_valid <=> DigitCount(cell_in) >= 10
        /\ DigitCount(cell_in) < 10 =>
               cell_out = Str(SelectSeq(PyStr(cell_in), IsDigitChar))

\* thirteen digits: neither the ten-digit nor the twelve-digit case, formatted
\* by the last return
C8_Witness ==
    /\ PhoneChecked
    /\ DigitCount(cell_in) = 13
    /\ cell_out = Str(<<"+","9","1"," ","9","8","7","6","5"," ","4","3","2","1","0">>)
    /\ cell_valid

(***************************************************************************)
(* Properties of clean_dataframe and validate_dataframe                    *)
(***************************************************************************)
\* the registration order C9 gives
RegistrationOrder == <<
    <<"p","h","o","n","e">>, <<"e","m","a","i","l">>, <<"t","a","x","_","i","d">>, <<"p","o","s","t","a","l","_","c","o","d","e">>, <<"r","e","v","e","n","u","e">>, <<"e","m","p","l","o","y","e","e","s">>,
    <<"d","a","t","e","_","e","s","t","a","b","l","i","s","h","e","d">>, <<"w","e","b","s","i","t","e">>, <<"c","o","m","p","a","n","y","_","n","a","m","e">>, <<"a","d","d","r","e","s","s">>, <<"c","i","t","y">>,
    <<"s","t","a","t","e">>, <<"c","o","u","n","t","r","y">>, <<"i","n","d","u","s","t","r","y">>, <<"c","o","n","t","a","c","t","_","p","e","r","s","o","n">>, <<"c","u","r","r","e","n","c","y">>>>

KeysIn(column_lower) ==
    {i \in 1..Len(RegistrationOrder) : Contains(column_lower, RegistrationOrder[i])}

\* the earliest key of RegistrationOrder in the name, <<>> when there is none
GoverningKey(column_lower) ==
    IF KeysIn(column_lower) = {} THEN <<>>
    ELSE RegistrationOrder[MinOf(KeysIn(column_lower))]

\* C9: every column is cleaned by the cleaning function and validated by the
\* validation function registered under one key, the earliest key of the
\* registration order that is a substring of the lower-cased column name; a
\* column whose name holds no key is not cleaned (only its nulls are filled)
\* and not validated.
C9_SameFirstKeyClassification ==
    df_pc = "validated" =>
        /\ Len(cleaned_df) = Len(DropDuplicated(df))
        /\ \A c \in 1..Len(DropDuplicated(df)) :
            LET col == DropDuplicated(df)[c]
                key == GoverningKey(Lower(col.name))
            IN  IF key = <<>>
                THEN /\ cleaned_df[c] = FillNa(col)
                     /\ col.name \notin DOMAIN validation_results
                ELSE /\ cleaned_df[c] =
                            FillNa(ApplyCleaner(RuleUnder(cleaning_rules, key), col))
                     /\ col.name \in DOMAIN validation_results
                     /\ validation_results[col.name] =
                            Counts(RuleUnder(validation_rules, key), cleaned_df[c])

\* a dataset with a column whose name holds two keys that clean and validate a
\* cell differently, next to a column whose name holds none
C9_Witness ==
    /\ df_pc = "validated"
    /\ \E c \in 1..Len(df) :
        /\ Cardinality(KeysIn(Lower(df[c].name))) >= 2
        /\ \E r \in 1..Len(df[c].cells) : \E k \in KeysIn(Lower(df[c].name)) :
            /\ ~IsNa(df[c].cells[r])
            /\ CallCleaner(RuleUnder(cleaning_rules, RegistrationOrder[k]), df[c].cells[r])
                   # cleaned_df[c].cells[r]
        /\ df[c].name \in DOMAIN validation_results
    /\ \E c \in 1..Len(df) :
        /\ KeysIn(Lower(df[c].name)) = {}
        /\ df[c].name \notin DOMAIN validation_results

\* C10: the cleaned dataset has no null cell; a cell that is null after the
\* type-specific step is 0 in a numeric column and "Unknown" in any other, and
\* a cell that is not null after that step is left as it is.
C10_NullsFilledByColumnType ==
    df_pc \in {"cleaned", "validated"} =>
        /\ Len(cleaned_df) = Len(DropDuplicated(df))
        /\ \A c \in 1..Len(cleaned_df) :
            LET typed == CleanStep(DropDuplicated(df)[c])
            IN  \A r \in 1..Len(typed.cells) :
                    /\ ~IsNa(cleaned_df[c].cells[r])
                    /\ cleaned_df[c].cells[r] =
                           IF ~IsNa(typed.cells[r]) THEN typed.cells[r]
                           ELSE IF typed.dtype = "float64" THEN Num(<<"0",".","0">>)
                                ELSE Str(<<"U","n","k","n","o","w","n">>)

\* a cleaned dataset with a numeric column that had a null filled with 0 and a
\* text column that had a null filled with "Unknown" beside an unchanged cell
C10_Witness ==
    /\ df_pc = "cleaned"
    /\ \E c \in 1..Len(cleaned_df) : \E r \in 1..MaxRows :
        /\ CleanStep(DropDuplicated(df)[c]).dtype = "float64"
        /\ IsNa(CleanStep(DropDuplicated(df)[c]).cells[r])
        /\ cleaned_df[c].cells[r] = Num(<<"0",".","0">>)
    /\ \E c \in 1..Len(cleaned_df) : \E r, q \in 1..MaxRows :
        /\ CleanStep(DropDuplicated(df)[c]).dtype = "object"
        /\ IsNa(CleanStep(DropDuplicated(df)[c]).cells[r])
        /\ cleaned_df[c].cells[r] = Str(<<"U","n","k","n","o","w","n">>)
        /\ ~IsNa(CleanStep(DropDuplicated(df)[c]).cells[q])
        /\ cleaned_df[c].cells[q] = CleanStep(DropDuplicated(df)[c]).cells[q]

\* the dataset validate_dataframe was given
ValidatedFrame == IF df_pc = "validated_input" THEN DropDuplicated(df) ELSE cleaned_df

ValidatedColumn(name) ==
    ValidatedFrame[CHOOSE c \in 1..Len(ValidatedFrame) : ValidatedFrame[c].name = name]

\* C11: for every validated field the counts partition the rows: valid + invalid
\* + null = total = number of rows; the null cells are exactly the null_count;
\* a non-null cell counts as valid when its predicate holds and as invalid when
\* it fails.
C11_CountsPartitionRows ==
    df_pc \in {"validated", "validated_input"} =>
        \A name \in DOMAIN validation_results :
            LET res == validation_results[name]
                cells == ValidatedColumn(name).cells
                func == validation_rules[FirstRule(validation_rules, Lower(name))].func
                rows == 1..Len(cells)
            IN  /\ res.valid_count + res.invalid_count + res.null_count = res.total_count
                /\ res.total_count = Len(cells)
                /\ res.null_count = Cardinality({r \in rows : IsNa(cells[r])})
                /\ res.valid_count = Cardinality({r \in rows :
                        ~IsNa(cells[r]) /\ CallValidator(func, cells[r])})
                /\ res.invalid_count = Cardinality({r \in rows :
                        ~IsNa(cells[r]) /\ ~CallValidator(func, cells[r])})

\* a dataset validated as it came in, with a field that has a null beside a
\* valid cell and a field that has a null beside an invalid cell
C11_Witness ==
    /\ df_pc = "validated_input"
    /\ \E name \in DOMAIN validation_results :
        validation_results[name].null_count >= 1 /\ validation_results[name].valid_count >= 1
    /\ \E name \in DOMAIN validation_results :
        validation_results[name].null_count >= 1 /\ validation_results[name].invalid_count >= 1

(***************************************************************************)
(* Properties of the merge in handle_data_cleaning                         *)
(***************************************************************************)
\* the positions, in upload order, of the columns mapped to a field
SourcesOf(target_field) ==
    {c \in 1..Len(df_uploaded) :
        \E i \in 1..Len(final_mapping) :
            /\ final_mapping[i].header = df_uploaded[c].name
            /\ final_mapping[i].field = target_field}

MergedFields == {t \in MappedFields(final_mapping) : Cardinality(SourcesOf(t)) > 1}

\* C12: when several input headers are mapped to one canonical field, the
\* merged column holds in every row the cell of the leftmost of those
\* uploaded columns that is non-null in the row, and a null exactly when all
\* of them are null in the row.
C12_MergeFirstNonNull ==
    app_pc = "cleaned" =>
        \A t \in MergedFields :
            /\ Cardinality({c \in 1..Len(ss_original_mapped_df) :
                    ss_original_mapped_df[c].name = t}) = 1
            /\ LET merged == ColumnNamed(ss_original_mapped_df, t)
               IN  \A r \in 1..MaxUploadRows :
                    LET filled == {c \in SourcesOf(t) : ~IsNa(df_uploaded[c].cells[r])}
                    IN  IF filled = {} THEN IsNa(merged.cells[r])
                        ELSE merged.cells[r] = df_uploaded[MinOf(filled)].cells[r]

\* two columns merged into one field: a row taken from the second column
\* because the first is null, and a row null in both
C12_Witness ==
    /\ app_pc = "cleaned"
    /\ \E t \in MergedFields :
        LET merged == ColumnNamed(ss_original_mapped_df, t)
            first == MinOf(SourcesOf(t))
        IN  /\ \E r \in 1..MaxUploadRows :
                /\ IsNa(df_uploaded[first].cells[r])
                /\ ~IsNa(merged.cells[r])
            /\ \E r \in 1..MaxUploadRows :
                /\ \A c \in SourcesOf(t) : IsNa(df_uploaded[c].cells[r])
                /\ IsNa(merged.cells[r])

(***************************************************************************)
(* Properties of suggest_fixes                                             *)
(***************************************************************************)
\* the strict format check of a column kind, as the validators state it
PassesStrict(kind, value) ==
    CASE kind = "email"   -> _validate_email(value)
      [] kind = "phone"   -> _validate_phone(value)
      [] kind = "date"    -> _validate_date(value)
      [] kind = "website" -> _validate_website(value)
      [] kind = "postal"  -> _validate_postal_code(value)
      [] OTHER            -> TRUE

FixCell(fix) == ColumnNamed(fix_df, fix.field).cells[fix.row_index + 1]

HasFix(name, r) ==
    \E k \in 1..Len(suggested_fixes) :
        suggested_fixes[k].field = name /\ suggested_fixes[k].row_index = r - 1

\* C13: every FixRecord of suggest_fixes is for a non-null cell that fails
\* the strict format check of its column's type, no cell gets two records,
\* and a dataset whose email, phone, date, website and postal cells all pass
\* (or are null) yields the empty list.
C13_FixesOnlyForFailingCells ==
    fix_pc = "suggested" =>
        /\ \A k \in 1..Len(suggested_fixes) :
            LET fix == suggested_fixes[k]
            IN  /\ \E c \in 1..Len(fix_df) : fix_df[c].name = fix.field
                /\ fix.row_index + 1 \in 1..MaxFixRows
                /\ ~IsNa(FixCell(fix))
                /\ ~PassesStrict(ColumnKind(fix.field), FixCell(fix))
                /\ fix.original_value = FixCell(fix)
        /\ \A j, k \in 1..Len(suggested_fixes) :
            /\ suggested_fixes[j].field = suggested_fixes[k].field
            /\ suggested_fixes[j].row_index = suggested_fixes[k].row_index
            => j = k
        /\ (\A c \in 1..Len(fix_df) : \A r \in 1..MaxFixRows :
                \/ IsNa(fix_df[c].cells[r])
                \/ PassesStrict(ColumnKind(fix_df[c].name), fix_df[c].cells[r]))
           => suggested_fixes = <<>>

\* a column with a record for its failing cell and none for its cell that
\* passes the strict check
C13_Witness ==
    /\ fix_pc = "suggested"
    /\ \E c \in 1..Len(fix_df) : \E r, q \in 1..MaxFixRows :
        /\ ColumnKind(fix_df[c].name) # "none"
        /\ HasFix(fix_df[c].name, r)
        /\ ~IsNa(fix_df[c].cells[q])
        /\ PassesStrict(ColumnKind(fix_df[c].name), fix_df[c].cells[q])
        /\ ~HasFix(fix_df[c].name, q)

\* C14: every FixRecord has a suggested_value different from its
\* original_value, and a failing cell whose fix heuristic returns its input
\* unchanged gets no FixRecord.
C14_SuggestionDiffers ==
    fix_pc = "suggested" =>
        /\ \A k \in 1..Len(suggested_fixes) :
            suggested_fixes[k].suggested_value # suggested_fixes[k].original_value
        /\ \A c \in 1..Len(fix_df) : \A r \in 1..MaxFixRows :
            LET kind == ColumnKind(fix_df[c].name)
                value == fix_df[c].cells[r]
            IN  /\ ~IsNa(value)
                /\ FixOf(kind, FixInput(kind, value)) = FixInput(kind, value)
                => ~HasFix(fix_df[c].name, r)

\* a failing cell with a record next to a failing cell the heuristic leaves
\* as it is
C14_Witness ==
    /\ fix_pc = "suggested"
    /\ \E c \in 1..Len(fix_df) : \E r, q \in 1..MaxFixRows :
        LET kind == ColumnKind(fix_df[c].name)
        IN  /\ HasFix(fix_df[c].name, r)
            /\ ~IsNa(fix_df[c].cells[q])
            /\ ~PassesStrict(kind, fix_df[c].cells[q])
            /\ FixOf(kind, FixInput(kind, fix_df[c].cells[q])) = FixInput(kind, fix_df[c].cells[q])
            /\ ~HasFix(fix_df[c].name, q)

(***************************************************************************)
(* Properties of the promotion store                                       *)
(***************************************************************************)
\* a dict with a header_aliases dict and a fix_rules list
StoreShaped(data) ==
    /\ data.t = "dict"
    /\ <<"h","e","a","d","e","r","_","a","l","i","a","s","e","s">> \in Keys(data) /\ At(data, <<"h","e","a","d","e","r","_","a","l","i","a","s","e","s">>).t = "dict"
    /\ <<"f","i","x","_","r","u","l","e","s">> \in Keys(data) /\ At(data, <<"f","i","x","_","r","u","l","e","s">>).t = "list"

\* missing, empty, not JSON, or JSON of another shape
Malformed(file) ==
    \/ ~file.exists
    \/ file.toks = <<>>
    \/ ~Parse(file.toks).ok
    \/ ~StoreShaped(Parse(file.toks).val)

\* C15 as stated: load_promoted_fixes returns a value with both keys, and
\* exactly {header_aliases: {}, fix_rules: []} when the store file is
\* missing, empty or malformed.
C15_LoadReturnsStoreShape ==
    store_pc = "loaded" =>
        /\ loaded.t = "dict"
        /\ {<<"h","e","a","d","e","r","_","a","l","i","a","s","e","s">>, <<"f","i","x","_","r","u","l","e","s">>} \subseteq Keys(loaded)
        /\ Malformed(store_file) => loaded = EmptyStore

\* the fix_rules a load of the store file returns
StoredRules ==
    LET data == load_promoted_fixes(store_file)
    IN  IF <<"f","i","x","_","r","u","l","e","s">> \in Keys(data) /\ At(data, <<"f","i","x","_","r","u","l","e","s">>).t = "list"
        THEN At(data, <<"f","i","x","_","r","u","l","e","s">>).v ELSE <<>>

\* C16 as stated: fix_rules never holds two structurally equal rules,
\* whether add_fix_rule or the UI promotion inserted them.
C16_NoDuplicateRules ==
    \A i, j \in 1..Len(StoredRules) :
        ValueEq(StoredRules[i], StoredRules[j]) => i = j

\* C17 as stated: a load concurrent with one save of a serializable store
\* returns the complete store from before the save or the complete store
\* being saved.
C17_SaveAtomicForReaders ==
    /\ store_pc \in {"start", "writing", "returned"}
    /\ loaded # PyNone
    /\ Dump(fixes_data).ok
    => loaded \in {load_promoted_fixes(file_before), fixes_data}

\* a store as the calls build it: string aliases, rules that are dicts
WellFormedStore(data) ==
    /\ StoreShaped(data)
    /\ Dump(data).ok
    /\ \A i \in 1..Len(At(data, <<"h","e","a","d","e","r","_","a","l","i","a","s","e","s">>).v) :
            At(data, <<"h","e","a","d","e","r","_","a","l","i","a","s","e","s">>).v[i].val.t = "str"
    /\ \A i \in 1..Len(At(data, <<"f","i","x","_","r","u","l","e","s">>).v) :
            At(data, <<"f","i","x","_","r","u","l","e","s">>).v[i].t = "dict"

WellFormedFile(file) ==
    file.exists /\ Parse(file.toks).ok /\ WellFormedStore(Parse(file.toks).val)

Saved == store_pc \in {"add_header_alias", "add_fix_rule", "promoted", "resaved"} /\ save_ok

\* C18 as stated: a save that fails returns False and leaves the store file
\* with its previous well-formed content, so a load after it returns what a
\* load before it returned.
C18_FailedSaveKeepsFile ==
    store_pc = "loaded_after" /\ ~save_ok /\ WellFormedFile(file_before) =>
        /\ store_file = file_before
        /\ loaded = load_promoted_fixes(file_before)

\* C19: a load after the save of a well-formed store returns that store,
\* aliases and rules in the same order, and save(load()) on a well-formed
\* store file leaves the file as it was.
C19_RoundTrip ==
    /\ Saved /\ WellFormedStore(fixes_data) => load_promoted_fixes(store_file) = fixes_data
    /\ store_pc = "resaved" /\ WellFormedFile(file_before) => store_file = file_before

\* a store with an alias and a rule with a float in it, loaded and saved back
C19_Witness ==
    /\ store_pc = "resaved" /\ save_ok
    /\ WellFormedFile(file_before)
    /\ At(fixes_data, <<"h","e","a","d","e","r","_","a","l","i","a","s","e","s">>).v # <<>>
    /\ \E i \in 1..Len(StoredRules) : At(StoredRules[i], <<"o","r","i","g","i","n","a","l">>).t = "num"
    /\ load_promoted_fixes(store_file) = fixes_data

\* C20 as stated: every rule in fix_rules carries the keys field, rule_type,
\* original and replacement.
C20_RulesCarryRuleType ==
    \A i \in 1..Len(StoredRules) :
        /\ StoredRules[i].t = "dict"
        /\ {<<"f","i","e","l","d">>, <<"r","u","l","e","_","t","y","p","e">>, <<"o","r","i","g","i","n","a","l">>, <<"r","e","p","l","a","c","e","m","e","n","t">>} \subseteq Keys(StoredRules[i])

(***************************************************************************)
(* Properties of the session: promoted rules, uploads, applied fixes       *)
(***************************************************************************)
\* the fixes listed in the Targeted Fixes tab are those of the session's
\* cleaned dataset
SuggestedFixesAreCurrent ==
    "cleaned_df" \in session_keys
        => ss_suggested_fixes = suggest_fixes(ss_cleaned_df, ss_validation_results)

\* the cells of the named field of a dataset
FieldCells(frame, field) ==
    UNION {Range(frame[c].cells) : c \in {d \in 1..Len(frame) : Str(frame[d].name) = field}}

\* the rule's original value is in its field of the cleaned dataset before
\* the promoted rules are applied
Recurs(rule) ==
    \E cell \in FieldCells(clean_dataframe(ss_original_mapped_df), Get(rule, <<"f","i","e","l","d">>)) :
        PyEq(cell, Get(rule, <<"o","r","i","g","i","n","a","l">>))

C22_OnlyStoreCarriedBetweenUploads ==
    /\ report.shown /\ report.df # <<>> => report.sources \subseteq {report.filename}
    /\ sess_pc = "cleaned" /\ final_mapping # <<>> => ss_sources.cleaned_df = {filename}

\* the applied fixes are fixes suggested for the session's cleaned dataset
AppliedAreCurrent ==
    \A i \in 1..Len(ss_applied_fixes) : ss_applied_fixes[i] \in Range(ss_suggested_fixes)

\* a fix was approved for the cell at row r (from 1) of the named field
Approved(name, r) ==
    \E i \in 1..Len(ss_applied_fixes) :
        /\ ss_applied_fixes[i].field = name
        /\ ss_applied_fixes[i].row_index = r - 1

\* C30: after Apply, every cell of final_df other than the cells at the
\* field and row_index of an approved fix equals the cell of cleaned_df at
\* the same place.
C30_FixChangesOnlyItsCell ==
    sess_pc = "applied" /\ "final_df" \in session_keys /\ AppliedAreCurrent
        => /\ Len(ss_final_df) = Len(ss_cleaned_df)
           /\ \A c \in 1..Len(ss_cleaned_df) :
                \A r \in 1..Len(ss_cleaned_df[c].cells) :
                    ~Approved(ss_cleaned_df[c].name, r)
                        => ss_final_df[c].cells[r] = ss_cleaned_df[c].cells[r]

(***************************************************************************)
(* Properties of load_canonical_schema                                     *)
(***************************************************************************)
\* C23: a schema loaded from a file with a canonical_name or name column
\* holds no field name twice.
C23_SchemaNamesUnique ==
    schema_pc = "loaded" /\ canonical_out.ok
        => \A i, j \in 1..Len(canonical_out.fields) :
                canonical_out.fields[i] = canonical_out.fields[j] => i = j

(***************************************************************************)
(* Properties of suggest_mappings with promoted aliases of any target      *)
(***************************************************************************)
\* C24: every suggestion of suggest_mappings maps its header to one of the
\* canonical fields given to the call (a list of at least one field).
C24_SuggestionsAreCanonicalFields ==
    map_pc = "done" /\ canonical_fields # <<>> =>
        \A h \in DOMAIN suggestions :
            suggestions[h].mapped_field \in Range(canonical_fields)

(***************************************************************************)
(* Properties of suggest_fixes after clean_dataframe                       *)
(***************************************************************************)
\* the cell of the dataset as read that a fix is about
RawCell(fix) == ColumnNamed(fix_raw, fix.field).cells[fix.row_index + 1]

\* C25: suggest_fixes on the output of clean_dataframe gives no FixRecord
\* for a cell that was null in the dataset given to clean_dataframe.
C25_NoFixForNullCells ==
    fix_pc = "suggested" /\ fix_df = clean_dataframe(fix_raw) =>
        \A k \in 1..Len(suggested_fixes) : ~IsNa(RawCell(suggested_fixes[k]))

(***************************************************************************)
(* Properties of the promoted rules in handle_data_cleaning                *)
(***************************************************************************)
\* C26: applying the whole list of promoted rules once more to the dataset
\* handle_data_cleaning produced changes no cell.
C26_RuleListIdempotent ==
    app_pc = "cleaned" => ApplyRules(ss_cleaned_df, promoted_rules) = ss_cleaned_df

(***************************************************************************)
(* Properties of clean_dataframe applied twice                             *)
(***************************************************************************)
\* C27: clean_dataframe applied to its own output gives that output again,
\* cell for cell.
C27_CleanDataframeIdempotent ==
    df_pc = "cleaned_again" => cleaned_df = clean_dataframe(df)

(***************************************************************************)
(* Properties of the column types of FixSuggester and DataCleaner          *)
(***************************************************************************)
\* the suggestion type of the function the first matching rule of a table
\* names for a column
RuleKind(rules, column) ==
    LET i == FirstRule(rules, Lower(column))
    IN  IF i = 0 THEN "none"
        ELSE CASE rules[i].func \in {"_clean_email", "_validate_email"} -> "email"
               [] rules[i].func \in {"_clean_phone", "_validate_phone"} -> "phone"
               [] rules[i].func \in {"_clean_date", "_validate_date"} -> "date"
               [] rules[i].func \in {"_clean_website", "_validate_website"} -> "website"
               [] rules[i].func \in {"_clean_postal_code", "_validate_postal_code"} -> "postal"
               [] OTHER -> "other"

\* C28: a column that gets an email, phone, date, website or postal
\* suggestion from FixSuggester is cleaned and validated by DataCleaner as
\* that same type.
C28_SuggesterTypeIsCleanerType ==
    fix_pc = "suggested" =>
        \A k \in 1..Len(suggested_fixes) :
            LET name == suggested_fixes[k].field
            IN  /\ RuleKind(cleaning_rules, name) = ColumnKind(name)
                /\ RuleKind(validation_rules, name) = ColumnKind(name)

(***************************************************************************)
(* Properties of unparsable cells of revenue and employees columns         *)
(***************************************************************************)
\* the function cleaning a column of the dataset, "" when it has none
CleanerOf(col) ==
    LET rule == FirstRule(cleaning_rules, Lower(col.name))
    IN  IF rule = 0 THEN "" ELSE cleaning_rules[rule].func

\* the rows of a column whose cell is not null and whose text, once the
\* characters other than digits, '.' and '-' are taken out, float() rejects
Unparsable(col) ==
    {r \in 1..Len(col.cells) :
        /\ ~IsNa(col.cells[r])
        /\ ~PyFloat(SelectSeq(Strip(PyStr(col.cells[r])), IsNumericChar)).ok}

\* C29: in a column cleaned by _clean_currency (revenue) or _clean_number
\* (employees), a non-null cell that does not parse as a number becomes NaN
\* in the cleaning function and 0 in the null fill, the validator accepts
\* it, and validate_dataframe counts it as valid, not as invalid or null.
C29_UnparsableNumberBecomesValidZero ==
    df_pc = "validated" =>
        \A c \in 1..Len(DropDuplicated(df)) :
            LET col == DropDuplicated(df)[c]
                func == CleanerOf(col)
                counts == validation_results[col.name]
            IN  func \in {"_clean_currency", "_clean_number"} =>
                    /\ \A r \in Unparsable(col) :
                        /\ CallCleaner(func, col.cells[r]) = NaN
                        /\ cleaned_df[c].cells[r] = Num(<<"0",".","0">>)
                        /\ CallValidator(IF func = "_clean_currency" THEN "_validate_number"
                                         ELSE "_validate_integer", cleaned_df[c].cells[r])
                    /\ counts.valid_count >= Cardinality(Unparsable(col))
                    /\ counts.invalid_count + counts.null_count
                           <= counts.total_count - Cardinality(Unparsable(col))

\* a revenue or employees column with a cell that does not parse, beside a
\* cell that parses to another number or a None, every row counted valid
C29_Witness ==
    /\ df_pc = "validated"
    /\ \E c \in 1..Len(df) : \E r, q \in 1..MaxRows :
        /\ CleanerOf(df[c]) \in {"_clean_currency", "_clean_number"}
        /\ r \in Unparsable(df[c])
        /\ cleaned_df[c].cells[r] = Num(<<"0",".","0">>)
        /\ \/ ~IsNa(df[c].cells[q]) /\ cleaned_df[c].cells[q] # Num(<<"0",".","0">>)
           \/ df[c].cells[q] = PyNone
        /\ validation_results[df[c].name].valid_count = MaxRows

=============================================================================
